---- MODULE Spec2Model ----
\* A model of sethvargo/go-cache: the FIFO, LIFO, LRU, Random and TTL caches
\* (TTL in its heap-based and its list-based variant), their callers, the lock,
\* the clock and the TTL sweeper goroutine.
EXTENDS Integers, Sequences, FiniteSets, TLC

VARIABLES
  c,        \* the cache struct together with the list/heap items it allocated
  lock,     \* holder of l.lock: a caller, "sweeper", or NoProc when free
  procs,    \* per caller: the call in progress
  clock,    \* time.Now()
  sw,       \* the sweeper goroutine of a TTL cache: its position and its `now`
  crashed,  \* the process died of a nil dereference
  last,     \* the call that has just returned, with what it returned (no call
            \* and no sweep having started since)
  order,    \* history: the keys present, by insertion (FIFO, LIFO) or by last use (LRU)
  hist,     \* history: the first stores (by Set or Fetch) made since construction
  prev,     \* history: the Fetch that returned latest, kept until another call
            \* than a Fetch of the same key is made
  twin      \* a list-variant TTL cache run side by side with a heap-variant c:
            \* its struct, whether it died, and what its latest call returned

vars == <<c, lock, procs, clock, sw, crashed, last, order, hist, prev, twin>>

----------------------------------------------------------------------------
\* Bounds of the model.

MaxCapacity == 2
MaxClock == 3
MaxNodes == 4

Keys == {"a", "b", "c"}
TTLKeys == {"a", "b"}
Vals == {1, 2}
Capacities == 1..MaxCapacity
Ptrs == 1..MaxNodes

\* Zero values of the program.
NIL == 0
ZeroV == 0
NoKey == "nil"
NoTime == -1

NoProc == "none"
NoPanic == "none"
PanicStopped == "cache is stopped"
PanicNil == "nil dereference"

CapPolicies == {"FIFO", "LIFO", "LRU", "Random"}
TTLPolicies == {"TTLHeap", "TTLList"}
ListPolicies == {"FIFO", "LIFO", "LRU", "TTLList"}

\* The global TTL of a TTL cache, in clock units.
TTLDuration == 2

----------------------------------------------------------------------------
\* Helpers on maps (functions with a finite domain).

MapPut(m, k, v) == [x \in (DOMAIN m) \cup {k} |-> IF x = k THEN v ELSE m[x]]

MapDelete(m, k) == [x \in (DOMAIN m) \ {k} |-> m[x]]

EmptyMap == [x \in {} |-> NIL]

Range(f) == {f[x] : x \in DOMAIN f}

SeqRange(s) == {s[i] : i \in 1..Len(s)}

\* len(l.cache)
CacheLen(cc) == Cardinality(DOMAIN cc.cache)

\* A list item / heap item: fifoListItem, lifoListItem, lruListItem,
\* ttlListItem, ttlItem. Fields a policy's item does not have stay zero.
Item(key, val, exp) ==
  [key |-> key, value |-> val, next |-> NIL, prev |-> NIL, expiresAt |-> exp]

\* What zeroing an item leaves of it, its links aside.
ZeroItem(n) == [n EXCEPT !.key = NoKey, !.value = ZeroV, !.expiresAt = NoTime]

\* The address the allocator hands out: one that no item occupies.
FreePtrs(cc) == Ptrs \ DOMAIN cc.nodes

NewPtr(cc) == CHOOSE p \in FreePtrs(cc) : \A q \in FreePtrs(cc) : p <= q

\* What a call hands back: the struct after it, the value, found, the panic,
\* and (for the record) the key it evicted and whether it created an item.
Ret(cc, v, ok, panic, evicted, created) ==
  [c |-> cc, v |-> v, ok |-> ok, panic |-> panic, evicted |-> evicted,
   created |-> created]

\* atomic.LoadUint32(&l.stopped) == 1
isStopped(cc) == cc.stopped = 1

----------------------------------------------------------------------------
\* FIFO

\* FIFO.get
fifoGet(cc, key) ==
  IF isStopped(cc) THEN Ret(cc, ZeroV, FALSE, PanicStopped, NoKey, FALSE)
  ELSE IF key \notin DOMAIN cc.cache
    THEN Ret(cc, ZeroV, FALSE, NoPanic, NoKey, FALSE)
    ELSE Ret(cc, cc.nodes[cc.cache[key]].value, TRUE, NoPanic, NoKey, FALSE)

\* The eviction block of set in FIFO and LIFO without delete(l.cache, *head.key).
slEvictHeadKeepsIndex(cc) ==
  IF cc.head = NIL THEN [c |-> cc, panic |-> PanicNil, evicted |-> NoKey]
  ELSE LET head == cc.head
           next == cc.nodes[head].next
           hkey == cc.nodes[head].key
       IN IF hkey = NoKey THEN [c |-> cc, panic |-> PanicNil, evicted |-> NoKey]
          ELSE [c |-> [cc EXCEPT !.nodes[head] = [ZeroItem(@) EXCEPT !.next = NIL],
                                 !.head = next],
                panic |-> NoPanic, evicted |-> hkey]

\* The eviction block of set in FIFO and LIFO: drop the head of the list.
\* head.next of a nil head, and *head.key of a nil key, are nil dereferences.
slEvictHead(cc) ==
  IF cc.head = NIL THEN [c |-> cc, panic |-> PanicNil, evicted |-> NoKey]
  ELSE LET head == cc.head
           next == cc.nodes[head].next
           hkey == cc.nodes[head].key
       IN IF hkey = NoKey THEN [c |-> cc, panic |-> PanicNil, evicted |-> NoKey]
          ELSE [c |-> [cc EXCEPT !.cache = MapDelete(cc.cache, hkey),
                                 !.nodes[head] = [ZeroItem(@) EXCEPT !.next = NIL],
                                 !.head = next],
                panic |-> NoPanic, evicted |-> hkey]

\* The insertion half of FIFO.set, after the capacity check.
fifoInsert(cc, key, val) ==
  IF key \in DOMAIN cc.cache
    THEN [c |-> [cc EXCEPT !.nodes[cc.cache[key]].value = val], created |-> FALSE]
    ELSE LET node == NewPtr(cc)
             c1 == [cc EXCEPT !.nodes = MapPut(cc.nodes, node, Item(key, ZeroV, NoTime)),
                              !.cache = MapPut(cc.cache, key, node)]
             c2 == IF c1.tail # NIL THEN [c1 EXCEPT !.nodes[c1.tail].next = node] ELSE c1
             c3 == [c2 EXCEPT !.tail = node]
             c4 == IF c3.head = NIL THEN [c3 EXCEPT !.head = node] ELSE c3
         IN [c |-> [c4 EXCEPT !.nodes[node].value = val], created |-> TRUE]

\* FIFO.set with the capacity check off by one: it evicts only above capacity.
fifoSetEvictsLate(cc, key, val) ==
  IF isStopped(cc) THEN Ret(cc, ZeroV, FALSE, PanicStopped, NoKey, FALSE)
  ELSE LET ev == IF CacheLen(cc) > cc.capacity THEN slEvictHead(cc)
                 ELSE [c |-> cc, panic |-> NoPanic, evicted |-> NoKey]
       IN IF ev.panic # NoPanic THEN Ret(ev.c, ZeroV, FALSE, ev.panic, NoKey, FALSE)
          ELSE LET ins == fifoInsert(ev.c, key, val)
               IN Ret(ins.c, ZeroV, FALSE, NoPanic, ev.evicted, ins.created)

\* FIFO.set
fifoSet(cc, key, val) ==
  IF isStopped(cc) THEN Ret(cc, ZeroV, FALSE, PanicStopped, NoKey, FALSE)
  ELSE LET ev == IF CacheLen(cc) >= cc.capacity THEN slEvictHead(cc)
                 ELSE [c |-> cc, panic |-> NoPanic, evicted |-> NoKey]
       IN IF ev.panic # NoPanic THEN Ret(ev.c, ZeroV, FALSE, ev.panic, NoKey, FALSE)
          ELSE LET ins == fifoInsert(ev.c, key, val)
               IN Ret(ins.c, ZeroV, FALSE, NoPanic, ev.evicted, ins.created)

----------------------------------------------------------------------------
\* LIFO

\* LIFO.get
lifoGet(cc, key) ==
  IF isStopped(cc) THEN Ret(cc, ZeroV, FALSE, PanicStopped, NoKey, FALSE)
  ELSE IF key \notin DOMAIN cc.cache
    THEN Ret(cc, ZeroV, FALSE, NoPanic, NoKey, FALSE)
    ELSE Ret(cc, cc.nodes[cc.cache[key]].value, TRUE, NoPanic, NoKey, FALSE)

\* The insertion half of LIFO.set without the final `node.value = val`: the
\* value is stored in a new item only, an existing one keeps its old value.
lifoInsertKeepsOld(cc, key, val) ==
  IF key \in DOMAIN cc.cache
    THEN [c |-> cc, created |-> FALSE]
    ELSE LET node == NewPtr(cc)
             c1 == [cc EXCEPT !.nodes = MapPut(cc.nodes, node, Item(key, val, NoTime)),
                              !.cache = MapPut(cc.cache, key, node)]
             c2 == [c1 EXCEPT !.nodes[node].next = c1.head]
         IN [c |-> [c2 EXCEPT !.head = node], created |-> TRUE]

\* The insertion half of LIFO.set appending a new item at the end of the
\* list, as FIFO does.
lifoInsertAppends(cc, key, val) == fifoInsert(cc, key, val)

\* The insertion half of LIFO.set: a new item goes to the head.
lifoInsert(cc, key, val) ==
  IF key \in DOMAIN cc.cache
    THEN [c |-> [cc EXCEPT !.nodes[cc.cache[key]].value = val], created |-> FALSE]
    ELSE LET node == NewPtr(cc)
             c1 == [cc EXCEPT !.nodes = MapPut(cc.nodes, node, Item(key, ZeroV, NoTime)),
                              !.cache = MapPut(cc.cache, key, node)]
             c2 == [c1 EXCEPT !.nodes[node].next = c1.head]
             c3 == [c2 EXCEPT !.head = node]
         IN [c |-> [c3 EXCEPT !.nodes[node].value = val], created |-> TRUE]

\* LIFO.set evicting already when one more key would fill the cache.
lifoSetEvictsEarly(cc, key, val) ==
  IF isStopped(cc) THEN Ret(cc, ZeroV, FALSE, PanicStopped, NoKey, FALSE)
  ELSE LET ev == IF CacheLen(cc) >= cc.capacity - 1 /\ cc.head # NIL THEN slEvictHead(cc)
                 ELSE [c |-> cc, panic |-> NoPanic, evicted |-> NoKey]
       IN IF ev.panic # NoPanic THEN Ret(ev.c, ZeroV, FALSE, ev.panic, NoKey, FALSE)
          ELSE LET ins == lifoInsert(ev.c, key, val)
               IN Ret(ins.c, ZeroV, FALSE, NoPanic, ev.evicted, ins.created)

\* LIFO.set
lifoSet(cc, key, val) ==
  IF isStopped(cc) THEN Ret(cc, ZeroV, FALSE, PanicStopped, NoKey, FALSE)
  ELSE LET ev == IF CacheLen(cc) >= cc.capacity THEN slEvictHead(cc)
                 ELSE [c |-> cc, panic |-> NoPanic, evicted |-> NoKey]
       IN IF ev.panic # NoPanic THEN Ret(ev.c, ZeroV, FALSE, ev.panic, NoKey, FALSE)
          ELSE LET ins == lifoInsert(ev.c, key, val)
               IN Ret(ins.c, ZeroV, FALSE, NoPanic, ev.evicted, ins.created)

----------------------------------------------------------------------------
\* LRU

\* LRU.moveToTail without the update of head when the node is the head.
moveToTailKeepsHead(cc, node) ==
  IF node = cc.tail THEN cc
  ELSE LET c1 == cc
           c2 == IF c1.nodes[node].prev # NIL
                   THEN [c1 EXCEPT !.nodes[c1.nodes[node].prev].next = c1.nodes[node].next]
                   ELSE c1
           c3 == IF c2.nodes[node].next # NIL
                   THEN [c2 EXCEPT !.nodes[c2.nodes[node].next].prev = c2.nodes[node].prev]
                   ELSE c2
           c4 == IF c3.tail # NIL THEN [c3 EXCEPT !.nodes[c3.tail].next = node] ELSE c3
           c5 == [c4 EXCEPT !.nodes[node].next = NIL]
           c6 == [c5 EXCEPT !.nodes[node].prev = c5.tail]
           c7 == [c6 EXCEPT !.tail = node]
       IN IF c7.head = NIL THEN [c7 EXCEPT !.head = node] ELSE c7

\* LRU.moveToTail
moveToTail(cc, node) ==
  IF node = cc.tail THEN cc
  ELSE LET c1 == IF node = cc.head THEN [cc EXCEPT !.head = cc.nodes[node].next] ELSE cc
           c2 == IF c1.nodes[node].prev # NIL
                   THEN [c1 EXCEPT !.nodes[c1.nodes[node].prev].next = c1.nodes[node].next]
                   ELSE c1
           c3 == IF c2.nodes[node].next # NIL
                   THEN [c2 EXCEPT !.nodes[c2.nodes[node].next].prev = c2.nodes[node].prev]
                   ELSE c2
           c4 == IF c3.tail # NIL THEN [c3 EXCEPT !.nodes[c3.tail].next = node] ELSE c3
           c5 == [c4 EXCEPT !.nodes[node].next = NIL]
           c6 == [c5 EXCEPT !.nodes[node].prev = c5.tail]
           c7 == [c6 EXCEPT !.tail = node]
       IN IF c7.head = NIL THEN [c7 EXCEPT !.head = node] ELSE c7

\* LRU.get without the promotion of the item it finds.
lruGetNoPromote(cc, key) ==
  IF isStopped(cc) THEN Ret(cc, ZeroV, FALSE, PanicStopped, NoKey, FALSE)
  ELSE IF key \in DOMAIN cc.cache
    THEN Ret(cc, cc.nodes[cc.cache[key]].value, TRUE, NoPanic, NoKey, FALSE)
    ELSE Ret(cc, ZeroV, FALSE, NoPanic, NoKey, FALSE)

\* LRU.get
lruGet(cc, key) ==
  IF isStopped(cc) THEN Ret(cc, ZeroV, FALSE, PanicStopped, NoKey, FALSE)
  ELSE IF key \notin DOMAIN cc.cache
    THEN Ret(cc, ZeroV, FALSE, NoPanic, NoKey, FALSE)
    ELSE LET node == cc.cache[key]
             c1 == moveToTail(cc, node)
         IN Ret(c1, c1.nodes[node].value, TRUE, NoPanic, NoKey, FALSE)

\* The eviction block of LRU.set without `l.head = next`: head stays on the
\* item it has zeroed.
lruEvictHeadKeepsHead(cc) ==
  IF cc.head = NIL THEN [c |-> cc, panic |-> PanicNil, evicted |-> NoKey]
  ELSE LET head == cc.head
           next == cc.nodes[head].next
           hkey == cc.nodes[head].key
       IN IF hkey = NoKey THEN [c |-> cc, panic |-> PanicNil, evicted |-> NoKey]
          ELSE LET c1 == [cc EXCEPT !.cache = MapDelete(cc.cache, hkey),
                                    !.nodes[head] =
                                      [ZeroItem(@) EXCEPT !.prev = NIL, !.next = NIL]]
                   c2 == IF next # NIL THEN [c1 EXCEPT !.nodes[next].prev = NIL] ELSE c1
               IN [c |-> c2, panic |-> NoPanic, evicted |-> hkey]

\* The eviction block of LRU.set.
lruEvictHead(cc) ==
  IF cc.head = NIL THEN [c |-> cc, panic |-> PanicNil, evicted |-> NoKey]
  ELSE LET head == cc.head
           next == cc.nodes[head].next
           hkey == cc.nodes[head].key
       IN IF hkey = NoKey THEN [c |-> cc, panic |-> PanicNil, evicted |-> NoKey]
          ELSE LET c1 == [cc EXCEPT !.cache = MapDelete(cc.cache, hkey),
                                    !.nodes[head] =
                                      [ZeroItem(@) EXCEPT !.prev = NIL, !.next = NIL]]
                   c2 == IF next # NIL THEN [c1 EXCEPT !.nodes[next].prev = NIL] ELSE c1
               IN [c |-> [c2 EXCEPT !.head = next], panic |-> NoPanic, evicted |-> hkey]

\* The insertion half of LRU.set leaving a new item out of the index.
lruInsertNotIndexed(cc, key, val) ==
  LET found == key \in DOMAIN cc.cache
      node == IF found THEN cc.cache[key] ELSE NewPtr(cc)
      c1 == IF found THEN cc
            ELSE [cc EXCEPT !.nodes = MapPut(cc.nodes, node, Item(key, ZeroV, NoTime))]
      c2 == [c1 EXCEPT !.nodes[node].value = val]
  IN [c |-> moveToTail(c2, node), created |-> ~found]

\* The insertion half of LRU.set: find or create the item, store, promote.
lruInsert(cc, key, val) ==
  LET found == key \in DOMAIN cc.cache
      node == IF found THEN cc.cache[key] ELSE NewPtr(cc)
      c1 == IF found THEN cc
            ELSE [cc EXCEPT !.nodes = MapPut(cc.nodes, node, Item(key, ZeroV, NoTime)),
                            !.cache = MapPut(cc.cache, key, node)]
      c2 == [c1 EXCEPT !.nodes[node].value = val]
  IN [c |-> moveToTail(c2, node), created |-> ~found]

\* LRU.set
lruSet(cc, key, val) ==
  IF isStopped(cc) THEN Ret(cc, ZeroV, FALSE, PanicStopped, NoKey, FALSE)
  ELSE LET ev == IF CacheLen(cc) >= cc.capacity THEN lruEvictHead(cc)
                 ELSE [c |-> cc, panic |-> NoPanic, evicted |-> NoKey]
       IN IF ev.panic # NoPanic THEN Ret(ev.c, ZeroV, FALSE, ev.panic, NoKey, FALSE)
          ELSE LET ins == lruInsert(ev.c, key, val)
               IN Ret(ins.c, ZeroV, FALSE, NoPanic, ev.evicted, ins.created)

----------------------------------------------------------------------------
\* Random: l.cache maps a key to its value, there are no items.

\* Random.get without the stopped check: the nil map yields a miss.
randomGetUnchecked(cc, key) ==
  IF key \notin DOMAIN cc.cache
    THEN Ret(cc, ZeroV, FALSE, NoPanic, NoKey, FALSE)
    ELSE Ret(cc, cc.cache[key], TRUE, NoPanic, NoKey, FALSE)

\* Random.get
randomGet(cc, key) ==
  IF isStopped(cc) THEN Ret(cc, ZeroV, FALSE, PanicStopped, NoKey, FALSE)
  ELSE IF key \notin DOMAIN cc.cache
    THEN Ret(cc, ZeroV, FALSE, NoPanic, NoKey, FALSE)
    ELSE Ret(cc, cc.cache[key], TRUE, NoPanic, NoKey, FALSE)

\* The keys `for k := range l.cache` may yield first: any key of the map.
randomVictims(cc) ==
  IF CacheLen(cc) >= cc.capacity /\ ~isStopped(cc) THEN DOMAIN cc.cache ELSE {NoKey}

\* Random.set deleting the victim after the insertion instead of before it.
randomSetEvictsAfter(cc, key, val, victim) ==
  IF isStopped(cc) THEN Ret(cc, ZeroV, FALSE, PanicStopped, NoKey, FALSE)
  ELSE LET c1 == [cc EXCEPT !.cache = MapPut(cc.cache, key, val)]
           full == CacheLen(cc) >= cc.capacity /\ victim # NoKey
           v == IF victim = NoKey \/ key \in DOMAIN cc.cache
                  THEN victim ELSE key
       IN Ret(IF full THEN [c1 EXCEPT !.cache = MapDelete(c1.cache, v)] ELSE c1,
              ZeroV, FALSE, NoPanic, IF full THEN v ELSE NoKey,
              key \notin DOMAIN cc.cache)

\* Random.set, `victim` being the key the map iteration yields first
\* (NoKey when the loop does not run).
randomSet(cc, key, val, victim) ==
  IF isStopped(cc) THEN Ret(cc, ZeroV, FALSE, PanicStopped, NoKey, FALSE)
  ELSE LET c1 == IF CacheLen(cc) >= cc.capacity /\ victim # NoKey
                   THEN [cc EXCEPT !.cache = MapDelete(cc.cache, victim)]
                   ELSE cc
       IN Ret([c1 EXCEPT !.cache = MapPut(c1.cache, key, val)], ZeroV, FALSE, NoPanic,
              IF CacheLen(cc) >= cc.capacity THEN victim ELSE NoKey,
              key \notin DOMAIN c1.cache)

----------------------------------------------------------------------------
\* TTL, heap variant: l.heap is a container/heap of items ordered by expiresAt.
\* Position i of the Go slice is position i + 1 of the sequence.

HeapAt(cc, i) == cc.heap[i + 1]

\* ttlHeap.Less reads both expiresAt pointers: a nil one is a nil dereference.
LessPanics(cc, i, j) ==
  \/ cc.nodes[HeapAt(cc, i)].expiresAt = NoTime
  \/ cc.nodes[HeapAt(cc, j)].expiresAt = NoTime

\* ttlHeap.Less: h[i].expiresAt.Before(*h[j].expiresAt)
Less(cc, i, j) == cc.nodes[HeapAt(cc, i)].expiresAt < cc.nodes[HeapAt(cc, j)].expiresAt

\* ttlHeap.Swap
Swap(cc, i, j) ==
  [cc EXCEPT !.heap = [@ EXCEPT ![i + 1] = cc.heap[j + 1], ![j + 1] = cc.heap[i + 1]]]

\* Go's (j - 1) / 2, which truncates towards zero.
Parent(j) == IF j = 0 THEN 0 ELSE (j - 1) \div 2

\* container/heap up(h, j), as heap.Push runs it.
RECURSIVE heapUp(_, _)
heapUp(cc, j) ==
  LET i == Parent(j)
  IN IF i = j THEN [c |-> cc, panic |-> NoPanic]
     ELSE IF LessPanics(cc, j, i) THEN [c |-> cc, panic |-> PanicNil]
     ELSE IF ~Less(cc, j, i) THEN [c |-> cc, panic |-> NoPanic]
     ELSE heapUp(Swap(cc, i, j), i)

\* container/heap down(h, i, n), as heap.Pop runs it.
RECURSIVE heapDown(_, _, _)
heapDown(cc, i, n) ==
  LET j1 == 2 * i + 1
      j2 == j1 + 1
  IN IF j1 >= n THEN [c |-> cc, panic |-> NoPanic]
     ELSE IF j2 < n /\ LessPanics(cc, j2, j1) THEN [c |-> cc, panic |-> PanicNil]
     ELSE LET j == IF j2 < n /\ Less(cc, j2, j1) THEN j2 ELSE j1
          IN IF LessPanics(cc, j, i) THEN [c |-> cc, panic |-> PanicNil]
             ELSE IF ~Less(cc, j, i) THEN [c |-> cc, panic |-> NoPanic]
             ELSE heapDown(Swap(cc, i, j), j, n)

\* heap.Push(&l.heap, item): ttlHeap.Push appends, then up.
heapPush(cc, item) ==
  LET c1 == [cc EXCEPT !.heap = Append(@, item)]
  IN heapUp(c1, Len(c1.heap) - 1)

\* heap.Pop(&l.heap): swap the root with the last item, down, ttlHeap.Pop.
heapPop(cc) ==
  LET n == Len(cc.heap) - 1
      d == heapDown(Swap(cc, 0, n), 0, n)
  IN IF d.panic # NoPanic THEN d
     ELSE [c |-> [d.c EXCEPT !.heap = SubSeq(@, 1, n)], panic |-> NoPanic]

\* ttlHeap.Peek
Peek(cc) == IF Len(cc.heap) > 0 THEN cc.heap[1] ELSE NIL

\* TTL.get deleting from the index the expired entry it finds.
ttlGetDeletesExpired(cc, key, now) ==
  IF isStopped(cc) THEN Ret(cc, ZeroV, FALSE, PanicStopped, NoKey, FALSE)
  ELSE IF key \notin DOMAIN cc.cache
    THEN Ret(cc, ZeroV, FALSE, NoPanic, NoKey, FALSE)
    ELSE LET v == cc.nodes[cc.cache[key]]
         IN IF v.expiresAt = NoTime THEN Ret(cc, ZeroV, FALSE, PanicNil, NoKey, FALSE)
            ELSE IF v.expiresAt < now
              THEN Ret([cc EXCEPT !.cache = MapDelete(@, key)], ZeroV, FALSE, NoPanic,
                       NoKey, FALSE)
            ELSE Ret(cc, v.value, TRUE, NoPanic, NoKey, FALSE)

\* TTL.get taking an item whose expiry is the clock reading for expired.
ttlGetExpiredAtNow(cc, key, now) ==
  IF isStopped(cc) THEN Ret(cc, ZeroV, FALSE, PanicStopped, NoKey, FALSE)
  ELSE IF key \notin DOMAIN cc.cache
    THEN Ret(cc, ZeroV, FALSE, NoPanic, NoKey, FALSE)
    ELSE LET v == cc.nodes[cc.cache[key]]
         IN IF v.expiresAt = NoTime THEN Ret(cc, ZeroV, FALSE, PanicNil, NoKey, FALSE)
            ELSE IF v.expiresAt <= now THEN Ret(cc, ZeroV, FALSE, NoPanic, NoKey, FALSE)
            ELSE Ret(cc, v.value, TRUE, NoPanic, NoKey, FALSE)

\* TTL.get, both variants: found unless absent or expiresAt.Before(now).
ttlGet(cc, key, now) ==
  IF isStopped(cc) THEN Ret(cc, ZeroV, FALSE, PanicStopped, NoKey, FALSE)
  ELSE IF key \notin DOMAIN cc.cache
    THEN Ret(cc, ZeroV, FALSE, NoPanic, NoKey, FALSE)
    ELSE LET v == cc.nodes[cc.cache[key]]
         IN IF v.expiresAt = NoTime THEN Ret(cc, ZeroV, FALSE, PanicNil, NoKey, FALSE)
            ELSE IF v.expiresAt < now THEN Ret(cc, ZeroV, FALSE, NoPanic, NoKey, FALSE)
            ELSE Ret(cc, v.value, TRUE, NoPanic, NoKey, FALSE)

\* TTL.set, heap variant: neutralize the key's old item, push a new one.
ttlHeapSet(cc, key, val, now) ==
  IF isStopped(cc) THEN Ret(cc, ZeroV, FALSE, PanicStopped, NoKey, FALSE)
  ELSE LET c1 == IF key \in DOMAIN cc.cache
                   THEN [cc EXCEPT !.nodes[cc.cache[key]] = ZeroItem(@)]
                   ELSE cc
           item == NewPtr(c1)
           c2 == [c1 EXCEPT !.nodes = MapPut(c1.nodes, item, Item(key, val, now + cc.ttl)),
                            !.cache = MapPut(c1.cache, key, item)]
           up == heapPush(c2, item)
       IN Ret(up.c, ZeroV, FALSE, up.panic, NoKey, TRUE)

\* The tick body of TTL.start, heap variant: pop while the root has expired.
RECURSIVE ttlHeapSweep(_, _)
ttlHeapSweep(cc, now) ==
  LET item == Peek(cc)
  IN IF item = NIL THEN [c |-> cc, panic |-> NoPanic]
     ELSE IF cc.nodes[item].expiresAt = NoTime THEN [c |-> cc, panic |-> PanicNil]
     ELSE IF ~(cc.nodes[item].expiresAt < now) THEN [c |-> cc, panic |-> NoPanic]
     ELSE LET pop == heapPop(cc)
          IN IF pop.panic # NoPanic THEN pop
             ELSE IF pop.c.nodes[item].key = NoKey THEN [c |-> pop.c, panic |-> PanicNil]
             ELSE ttlHeapSweep(
                    [pop.c EXCEPT !.cache = MapDelete(@, pop.c.nodes[item].key),
                                  !.nodes[item] = ZeroItem(@)], now)

----------------------------------------------------------------------------
\* TTL, list variant: a singly linked list from head to tail.

\* TTL.set, list variant: find or create the item, store, append at the tail.
ttlListSet(cc, key, val, now) ==
  IF isStopped(cc) THEN Ret(cc, ZeroV, FALSE, PanicStopped, NoKey, FALSE)
  ELSE LET found == key \in DOMAIN cc.cache
           node == IF found THEN cc.cache[key] ELSE NewPtr(cc)
           c1 == IF found THEN cc
                 ELSE [cc EXCEPT !.nodes = MapPut(cc.nodes, node, Item(key, ZeroV, NoTime)),
                                 !.cache = MapPut(cc.cache, key, node)]
           c2 == [c1 EXCEPT !.nodes[node].value = val,
                            !.nodes[node].expiresAt = now + cc.ttl]
           c3 == IF c2.head = NIL THEN [c2 EXCEPT !.head = node] ELSE c2
           c4 == IF c3.tail # NIL THEN [c3 EXCEPT !.nodes[c3.tail].next = node] ELSE c3
       IN Ret([c4 EXCEPT !.tail = node], ZeroV, FALSE, NoPanic, NoKey, ~found)

\* The loop of the tick body, list variant, without the test of the expiry:
\* it deletes and zeroes every item of the list.
RECURSIVE ttlListWalkAll(_, _, _)
ttlListWalkAll(cc, node, now) ==
  IF node = NIL THEN [c |-> cc, node |-> NIL, panic |-> NoPanic]
  ELSE IF cc.nodes[node].expiresAt = NoTime
    THEN [c |-> cc, node |-> node, panic |-> PanicNil]
  ELSE IF cc.nodes[node].key = NoKey
    THEN [c |-> cc, node |-> node, panic |-> PanicNil]
  ELSE ttlListWalkAll(
         [cc EXCEPT !.cache = MapDelete(@, cc.nodes[node].key),
                    !.nodes[node] = [ZeroItem(@) EXCEPT !.next = NIL]],
         cc.nodes[node].next, now)

\* The loop of the tick body, list variant: from `node` on, delete and zero
\* every item until one expires after now. Yields the node the loop ends at.
RECURSIVE ttlListWalk(_, _, _)
ttlListWalk(cc, node, now) ==
  IF node = NIL THEN [c |-> cc, node |-> NIL, panic |-> NoPanic]
  ELSE IF cc.nodes[node].expiresAt = NoTime
    THEN [c |-> cc, node |-> node, panic |-> PanicNil]
  ELSE IF cc.nodes[node].expiresAt > now
    THEN [c |-> cc, node |-> node, panic |-> NoPanic]
  ELSE IF cc.nodes[node].key = NoKey
    THEN [c |-> cc, node |-> node, panic |-> PanicNil]
  ELSE ttlListWalk(
         [cc EXCEPT !.cache = MapDelete(@, cc.nodes[node].key),
                    !.nodes[node] = [ZeroItem(@) EXCEPT !.next = NIL]],
         cc.nodes[node].next, now)

\* The tick body of TTL.start, list variant.
ttlListSweep(cc, now) ==
  LET w == ttlListWalk(cc, cc.head, now)
  IN IF w.panic # NoPanic THEN [c |-> w.c, panic |-> w.panic]
     ELSE [c |-> [w.c EXCEPT !.head = w.node,
                             !.tail = IF w.node = NIL THEN NIL ELSE @],
           panic |-> NoPanic]

----------------------------------------------------------------------------
\* Stop

\* The loop of Stop over the list: zero key and value (and prev, in LRU) of
\* each node from head on, cutting its next, `node, node.next = node.next, nil`.
RECURSIVE stopWalk(_, _)
stopWalk(cc, node) ==
  IF node = NIL THEN cc
  ELSE stopWalk(
         [cc EXCEPT !.nodes[node] =
            [@ EXCEPT !.key = NoKey, !.value = ZeroV, !.next = NIL,
                      !.prev = IF cc.policy = "LRU" THEN NIL ELSE @]],
         cc.nodes[node].next)

\* The loop of TTL.Stop over l.cache: neutralize every value, delete every key.
stopNeutralize(cc) ==
  [cc EXCEPT !.nodes = [n \in DOMAIN @ |->
                          IF n \in Range(cc.cache) THEN ZeroItem(@[n]) ELSE @[n]]]

\* Stop that tears down whatever l.stopped holds.
StopUnguarded(cc) ==
  LET c1 == [cc EXCEPT !.stopped = 1]
       IN CASE cc.policy \in {"FIFO", "LIFO", "LRU"} ->
                 [c |-> [stopWalk([c1 EXCEPT !.cache = EmptyMap], c1.head)
                           EXCEPT !.head = NIL, !.tail = NIL],
                  panic |-> NoPanic]
            [] cc.policy = "Random" ->
                 [c |-> [c1 EXCEPT !.cache = EmptyMap], panic |-> NoPanic]
            [] cc.policy = "TTLList" ->
                 IF c1.stopCh = "closed" THEN [c |-> c1, panic |-> "close of closed channel"]
                 ELSE [c |-> [stopWalk([stopNeutralize(c1) EXCEPT !.stopCh = "closed",
                                                                  !.cache = EmptyMap],
                                       c1.head)
                                EXCEPT !.head = NIL, !.tail = NIL],
                       panic |-> NoPanic]
            [] cc.policy = "TTLHeap" ->
                 IF c1.stopCh = "closed" THEN [c |-> c1, panic |-> "close of closed channel"]
                 ELSE [c |-> [stopNeutralize(c1) EXCEPT !.stopCh = "closed",
                                                        !.cache = EmptyMap,
                                                        !.heap = <<>>],
                       panic |-> NoPanic]

\* Stop that leaves the list of the list variant of TTL as it is.
StopKeepsList(cc) ==
  IF cc.stopped # 0 THEN [c |-> cc, panic |-> NoPanic]
  ELSE LET c1 == [cc EXCEPT !.stopped = 1]
       IN CASE cc.policy \in {"FIFO", "LIFO", "LRU"} ->
                 [c |-> [stopWalk([c1 EXCEPT !.cache = EmptyMap], c1.head)
                           EXCEPT !.head = NIL, !.tail = NIL],
                  panic |-> NoPanic]
            [] cc.policy = "Random" ->
                 [c |-> [c1 EXCEPT !.cache = EmptyMap], panic |-> NoPanic]
            [] cc.policy = "TTLList" ->
                 IF c1.stopCh = "closed" THEN [c |-> c1, panic |-> "close of closed channel"]
                 ELSE [c |-> [c1 EXCEPT !.stopCh = "closed", !.cache = EmptyMap],
                       panic |-> NoPanic]
            [] cc.policy = "TTLHeap" ->
                 IF c1.stopCh = "closed" THEN [c |-> c1, panic |-> "close of closed channel"]
                 ELSE [c |-> [stopNeutralize(c1) EXCEPT !.stopCh = "closed",
                                                        !.cache = EmptyMap,
                                                        !.heap = <<>>],
                       panic |-> NoPanic]

\* Stop that leaves the heap of the heap variant as it is.
StopKeepsHeap(cc) ==
  IF cc.stopped # 0 THEN [c |-> cc, panic |-> NoPanic]
  ELSE LET c1 == [cc EXCEPT !.stopped = 1]
       IN CASE cc.policy \in {"FIFO", "LIFO", "LRU"} ->
                 [c |-> [stopWalk([c1 EXCEPT !.cache = EmptyMap], c1.head)
                           EXCEPT !.head = NIL, !.tail = NIL],
                  panic |-> NoPanic]
            [] cc.policy = "Random" ->
                 [c |-> [c1 EXCEPT !.cache = EmptyMap], panic |-> NoPanic]
            [] cc.policy = "TTLList" ->
                 IF c1.stopCh = "closed" THEN [c |-> c1, panic |-> "close of closed channel"]
                 ELSE [c |-> [stopWalk([stopNeutralize(c1) EXCEPT !.stopCh = "closed",
                                                                  !.cache = EmptyMap],
                                       c1.head)
                                EXCEPT !.head = NIL, !.tail = NIL],
                       panic |-> NoPanic]
            [] cc.policy = "TTLHeap" ->
                 IF c1.stopCh = "closed" THEN [c |-> c1, panic |-> "close of closed channel"]
                 ELSE [c |-> [stopNeutralize(c1) EXCEPT !.stopCh = "closed",
                                                        !.cache = EmptyMap],
                       panic |-> NoPanic]

\* Stop that clears the index and the list and leaves l.stopped at 0.
StopLeavesRunning(cc) ==
  IF cc.stopped # 0 THEN [c |-> cc, panic |-> NoPanic]
  ELSE CASE cc.policy \in {"FIFO", "LIFO", "LRU"} ->
              [c |-> [stopWalk([cc EXCEPT !.cache = EmptyMap], cc.head)
                        EXCEPT !.head = NIL, !.tail = NIL],
               panic |-> NoPanic]
         [] cc.policy = "Random" ->
              [c |-> [cc EXCEPT !.cache = EmptyMap], panic |-> NoPanic]
         [] cc.policy = "TTLList" ->
              [c |-> [stopWalk([stopNeutralize(cc) EXCEPT !.cache = EmptyMap], cc.head)
                        EXCEPT !.head = NIL, !.tail = NIL],
               panic |-> NoPanic]
         [] cc.policy = "TTLHeap" ->
              [c |-> [stopNeutralize(cc) EXCEPT !.cache = EmptyMap, !.heap = <<>>],
               panic |-> NoPanic]

\* Stop of every policy: the compare-and-swap of l.stopped decides whether this
\* call tears down. close(l.stopCh) of a closed channel would panic.
Stop(cc) ==
  IF cc.stopped # 0 THEN [c |-> cc, panic |-> NoPanic]
  ELSE LET c1 == [cc EXCEPT !.stopped = 1]
       IN CASE cc.policy \in {"FIFO", "LIFO", "LRU"} ->
                 [c |-> [stopWalk([c1 EXCEPT !.cache = EmptyMap], c1.head)
                           EXCEPT !.head = NIL, !.tail = NIL],
                  panic |-> NoPanic]
            [] cc.policy = "Random" ->
                 [c |-> [c1 EXCEPT !.cache = EmptyMap], panic |-> NoPanic]
            [] cc.policy = "TTLList" ->
                 IF c1.stopCh = "closed" THEN [c |-> c1, panic |-> "close of closed channel"]
                 ELSE [c |-> [stopWalk([stopNeutralize(c1) EXCEPT !.stopCh = "closed",
                                                                  !.cache = EmptyMap],
                                       c1.head)
                                EXCEPT !.head = NIL, !.tail = NIL],
                       panic |-> NoPanic]
            [] cc.policy = "TTLHeap" ->
                 IF c1.stopCh = "closed" THEN [c |-> c1, panic |-> "close of closed channel"]
                 ELSE [c |-> [stopNeutralize(c1) EXCEPT !.stopCh = "closed",
                                                        !.cache = EmptyMap,
                                                        !.heap = <<>>],
                       panic |-> NoPanic]

----------------------------------------------------------------------------
\* Garbage collection: an item nothing refers to any more is gone, and its
\* address is free again.

Roots(cc) ==
  ((IF cc.policy = "Random" THEN {} ELSE Range(cc.cache))
     \cup {cc.head, cc.tail} \cup SeqRange(cc.heap)) \ {NIL}

RECURSIVE Reach(_, _)
Reach(cc, S) ==
  LET T == (S \cup {cc.nodes[n].next : n \in S} \cup {cc.nodes[n].prev : n \in S}) \ {NIL}
  IN IF T = S THEN S ELSE Reach(cc, T)

GC(cc) == [cc EXCEPT !.nodes = [n \in Reach(cc, Roots(cc)) |-> cc.nodes[n]]]

----------------------------------------------------------------------------
\* The operations of the Cache interface, by policy.

\* l.get(key) / l.get(key, now)
Get(cc, key, now) ==
  CASE cc.policy = "FIFO" -> fifoGet(cc, key)
    [] cc.policy = "LIFO" -> lifoGet(cc, key)
    [] cc.policy = "LRU" -> lruGet(cc, key)
    [] cc.policy = "Random" -> randomGet(cc, key)
    [] cc.policy \in TTLPolicies -> ttlGet(cc, key, now)

\* l.set(key, val) / l.set(key, val, now)
Set(cc, key, val, now, victim) ==
  CASE cc.policy = "FIFO" -> fifoSet(cc, key, val)
    [] cc.policy = "LIFO" -> lifoSet(cc, key, val)
    [] cc.policy = "LRU" -> lruSet(cc, key, val)
    [] cc.policy = "Random" -> randomSet(cc, key, val, victim)
    [] cc.policy = "TTLHeap" -> ttlHeapSet(cc, key, val, now)
    [] cc.policy = "TTLList" -> ttlListSet(cc, key, val, now)

\* The victims the map iteration of Random.set may yield; NoKey elsewhere.
Victims(cc) == IF cc.policy = "Random" THEN randomVictims(cc) ELSE {NoKey}

\* The tick body of TTL.start.
Sweep(cc, now) ==
  IF cc.policy = "TTLHeap" THEN ttlHeapSweep(cc, now) ELSE ttlListSweep(cc, now)

\* The constructors panicking on a negative argument only.
NewCacheAllowsZero(policy, arg) ==
  IF arg < 0
    THEN [c |-> NIL,
          panic |-> IF policy \in TTLPolicies THEN "ttl must be greater than 0"
                    ELSE "capacity must be greater than 0"]
    ELSE [c |-> [policy |-> policy,
                 capacity |-> IF policy \in TTLPolicies THEN 0 ELSE arg,
                 ttl |-> IF policy \in TTLPolicies THEN arg ELSE 0,
                 cache |-> EmptyMap, head |-> NIL, tail |-> NIL, heap |-> <<>>,
                 stopped |-> 0,
                 stopCh |-> IF policy \in TTLPolicies THEN "open" ELSE "none",
                 nodes |-> EmptyMap],
          panic |-> NoPanic]

\* NewFIFO, NewLIFO, NewLRU, NewRandom (arg is the capacity) and NewTTL (arg
\* is the ttl): a panic on arg <= 0, else the empty struct.
NewCache(policy, arg) ==
  IF arg <= 0
    THEN [c |-> NIL,
          panic |-> IF policy \in TTLPolicies THEN "ttl must be greater than 0"
                    ELSE "capacity must be greater than 0"]
    ELSE [c |-> [policy |-> policy,
                 capacity |-> IF policy \in TTLPolicies THEN 0 ELSE arg,
                 ttl |-> IF policy \in TTLPolicies THEN arg ELSE 0,
                 cache |-> EmptyMap, head |-> NIL, tail |-> NIL, heap |-> <<>>,
                 stopped |-> 0,
                 stopCh |-> IF policy \in TTLPolicies THEN "open" ELSE "none",
                 nodes |-> EmptyMap],
          panic |-> NoPanic]

----------------------------------------------------------------------------
\* The callers, the lock and the clock.

Procs == {"p1"}

\* The keys the callers use: a TTL cache has no capacity to exceed.
KeysOf(cc) == IF cc.policy \in TTLPolicies THEN TTLKeys ELSE Keys

Idle == [pc |-> "idle", op |-> "none", key |-> NoKey, val |-> ZeroV, now |-> 0]

NoCall ==
  [op |-> "none", key |-> NoKey, v |-> ZeroV, ok |-> FALSE, err |-> FALSE,
   panic |-> NoPanic, evicted |-> NoKey, hadKey |-> FALSE, fn |-> FALSE,
   now |-> 0, at |-> 0, exp |-> NoTime]

IsTTL == c.policy \in TTLPolicies

\* time.Now().UTC() at the top of the TTL methods; the others read no clock.
Now == IF IsTTL THEN clock ELSE 0

\* The expiry of the item the index holds for key, NoTime if it holds none.
ExpiryOf(cc, key) ==
  IF cc.policy \in TTLPolicies /\ key \in DOMAIN cc.cache
    THEN cc.nodes[cc.cache[key]].expiresAt ELSE NoTime

\* The record of a completed call of a caller whose clock reading was now:
\* what it returned, whether the index held the key before, whether fn ran,
\* the clock at the time, and the expiry of the item a found value came from.
Done(op, key, r, err, fn, now) ==
  [op |-> op, key |-> key, v |-> r.v, ok |-> r.ok, err |-> err, panic |-> r.panic,
   evicted |-> r.evicted, hadKey |-> key \in DOMAIN c.cache, fn |-> fn,
   now |-> now, at |-> Now, exp |-> IF r.ok THEN ExpiryOf(c, key) ELSE NoTime]

\* No Fetch is the call that returned latest.
NoPrev == [key |-> NoKey, err |-> FALSE, exp |-> NoTime, again |-> FALSE]

\* The history after a Fetch of key returned r and the error err, the cache
\* being cc then: the key, the error, and the expiry of the entry the value
\* came from or went to, and whether the call made before it was a Fetch of
\* the same key that returned a nil error. A Fetch that panicked did not return.
PrevAfterFetch(cc, key, r, err) ==
  IF r.panic # NoPanic THEN NoPrev
  ELSE [key |-> key, err |-> err, exp |-> IF err THEN NoTime ELSE ExpiryOf(cc, key),
        again |-> (prev.key = key /\ ~prev.err)]

\* The history of the keys present, after a set of key that left the index as
\* in cc. A key the index did not hold before the call is the latest inserted,
\* a key it held keeps its place; in LRU a set key is the latest used.
OrderAfterSet(cc, key) ==
  LET here == SelectSeq(order, LAMBDA k : k \in DOMAIN cc.cache)
      others == SelectSeq(here, LAMBDA k : k # key)
  IN CASE cc.policy \in {"FIFO", "LIFO"} ->
            IF key \in DOMAIN c.cache THEN here ELSE Append(others, key)
       [] cc.policy = "LRU" -> Append(others, key)
       [] OTHER -> order

\* The history after a get of key that found it: in LRU key is the latest used.
OrderAfterGet(cc, key, ok) ==
  IF cc.policy = "LRU" /\ ok
    THEN Append(SelectSeq(order, LAMBDA k : k # key), key)
    ELSE order

\* The history of stores after one more, kept for the caches with a capacity
\* while it is no longer than a full cache and one more key, and dropped
\* (over) from then on.
HistAfterSet(key, val) ==
  IF c.policy \notin CapPolicies THEN hist
  ELSE IF hist.over \/ Len(hist.sets) >= MaxCapacity + 1
    THEN [over |-> TRUE, sets |-> <<>>]
    ELSE [over |-> FALSE, sets |-> Append(hist.sets, [key |-> key, val |-> val])]

\* No second cache is run side by side with c.
NoTwin == [c |-> NIL, crashed |-> FALSE, last |-> NIL]

\* The state a constructor leaves, for the caches in `caches`.
InitOf(caches) ==
  /\ c \in caches
  /\ lock = NoProc
  /\ procs = [p \in Procs |-> Idle]
  /\ clock = 0
  /\ sw = [pc |-> IF IsTTL THEN "top" ELSE "none", now |-> 0]
  /\ crashed = FALSE
  /\ last = NoCall
  /\ order = <<>>
  /\ hist = [over |-> FALSE, sets |-> <<>>]
  /\ prev = NoPrev
  /\ twin = NoTwin

\* NewFIFO, NewLIFO, NewLRU, NewRandom with each capacity of the model.
CapCaches == {NewCache(pol, cap).c : pol \in CapPolicies, cap \in Capacities}

\* NewTTL of either variant.
TTLCaches == {NewCache(pol, TTLDuration).c : pol \in TTLPolicies}

Init == InitOf(CapCaches \cup TTLCaches)

InitCap == InitOf(CapCaches)

\* A caller enters Get: TTL.Get reads the clock before it takes the lock.
CallGet(p, key) ==
  /\ ~crashed /\ procs[p].pc = "idle"
  /\ procs' = [procs EXCEPT ![p] = [pc |-> "called", op |-> "Get", key |-> key,
                                    val |-> ZeroV, now |-> Now]]
  /\ last' = NoCall
  /\ prev' = NoPrev
  /\ UNCHANGED <<c, lock, clock, sw, crashed, order, hist, twin>>

\* A caller enters Set.
CallSet(p, key, val) ==
  /\ ~crashed /\ procs[p].pc = "idle"
  /\ procs' = [procs EXCEPT ![p] = [pc |-> "called", op |-> "Set", key |-> key,
                                    val |-> val, now |-> Now]]
  /\ last' = NoCall
  /\ prev' = NoPrev
  /\ UNCHANGED <<c, lock, clock, sw, crashed, order, hist, twin>>

\* A caller enters Fetch.
CallFetch(p, key) ==
  /\ ~crashed /\ procs[p].pc = "idle"
  /\ procs' = [procs EXCEPT ![p] = [pc |-> "called", op |-> "Fetch", key |-> key,
                                    val |-> ZeroV, now |-> Now]]
  /\ last' = NoCall
  /\ prev' = IF prev.key = key THEN prev ELSE NoPrev
  /\ UNCHANGED <<c, lock, clock, sw, crashed, order, hist, twin>>

\* A caller enters Stop.
CallStop(p) ==
  /\ ~crashed /\ procs[p].pc = "idle"
  /\ procs' = [procs EXCEPT ![p] = [pc |-> "called", op |-> "Stop", key |-> NoKey,
                                    val |-> ZeroV, now |-> 0]]
  /\ last' = NoCall
  /\ prev' = NoPrev
  /\ UNCHANGED <<c, lock, clock, sw, crashed, order, hist, twin>>

\* Get under the lock.
RunGet(p) ==
  /\ ~crashed /\ procs[p].pc = "called" /\ procs[p].op = "Get" /\ lock = NoProc
  /\ LET r == Get(c, procs[p].key, procs[p].now)
     IN /\ c' = GC(r.c)
        /\ last' = Done("Get", procs[p].key, r, FALSE, FALSE, procs[p].now)
        /\ crashed' = (r.panic = PanicNil)
        /\ order' = OrderAfterGet(r.c, procs[p].key, r.ok)
  /\ procs' = [procs EXCEPT ![p] = Idle]
  /\ prev' = NoPrev
  /\ UNCHANGED <<lock, clock, sw, hist, twin>>

\* Set that does not wait for the lock.
RunSetUnlocked(p) ==
  /\ ~crashed /\ procs[p].pc = "called" /\ procs[p].op = "Set"
  /\ FreePtrs(c) # {}
  /\ \E victim \in Victims(c) :
       LET r == Set(c, procs[p].key, procs[p].val, procs[p].now, victim)
       IN /\ c' = GC(r.c)
          /\ last' = [Done("Set", procs[p].key, r, FALSE, FALSE, procs[p].now) EXCEPT !.v = procs[p].val]
          /\ crashed' = (r.panic = PanicNil)
          /\ order' = IF r.panic = NoPanic
                        THEN OrderAfterSet(r.c, procs[p].key) ELSE order
          /\ hist' = IF r.panic = NoPanic
                       THEN HistAfterSet(procs[p].key, procs[p].val) ELSE hist
  /\ procs' = [procs EXCEPT ![p] = Idle]
  /\ prev' = NoPrev
  /\ UNCHANGED <<lock, clock, sw, twin>>

\* Set under the lock.
RunSet(p) ==
  /\ ~crashed /\ procs[p].pc = "called" /\ procs[p].op = "Set" /\ lock = NoProc
  /\ FreePtrs(c) # {}
  /\ \E victim \in Victims(c) :
       LET r == Set(c, procs[p].key, procs[p].val, procs[p].now, victim)
       IN /\ c' = GC(r.c)
          /\ last' = [Done("Set", procs[p].key, r, FALSE, FALSE, procs[p].now) EXCEPT !.v = procs[p].val]
          /\ crashed' = (r.panic = PanicNil)
          /\ order' = IF r.panic = NoPanic
                        THEN OrderAfterSet(r.c, procs[p].key) ELSE order
          /\ hist' = IF r.panic = NoPanic
                       THEN HistAfterSet(procs[p].key, procs[p].val) ELSE hist
  /\ procs' = [procs EXCEPT ![p] = Idle]
  /\ prev' = NoPrev
  /\ UNCHANGED <<lock, clock, sw, twin>>

\* Fetch takes the lock, checks stopped, looks the key up: a hit returns, a
\* miss goes on to call fn with the lock held.
FetchBegin(p) ==
  /\ ~crashed /\ procs[p].pc = "called" /\ procs[p].op = "Fetch" /\ lock = NoProc
  /\ LET r == Get(c, procs[p].key, procs[p].now)
     IN IF r.ok \/ r.panic # NoPanic
          THEN /\ c' = GC(r.c)
               /\ last' = Done("Fetch", procs[p].key, r, FALSE, FALSE, procs[p].now)
               /\ crashed' = (r.panic = PanicNil)
               /\ order' = OrderAfterGet(r.c, procs[p].key, r.ok)
               /\ procs' = [procs EXCEPT ![p] = Idle]
               /\ prev' = PrevAfterFetch(r.c, procs[p].key, r, FALSE)
               /\ UNCHANGED <<lock, hist>>
          ELSE /\ procs' = [procs EXCEPT ![p].pc = "fn"]
               /\ lock' = p
               /\ UNCHANGED <<c, last, crashed, order, hist, prev>>
  /\ UNCHANGED <<clock, sw, twin>>

\* fn returns an error and Fetch caches the zero value for the key.
FetchFailCachesZero(p) ==
  /\ ~crashed /\ procs[p].pc = "fn" /\ lock = p
  /\ FreePtrs(c) # {}
  /\ \E victim \in Victims(c) :
       LET r == Set(c, procs[p].key, ZeroV, procs[p].now, victim)
       IN /\ c' = GC(r.c)
          /\ last' = Done("Fetch", procs[p].key,
                          Ret(c, ZeroV, FALSE, NoPanic, NoKey, FALSE), TRUE, TRUE, procs[p].now)
          /\ crashed' = (r.panic = PanicNil)
  /\ prev' = PrevAfterFetch(c, procs[p].key, Ret(c, ZeroV, FALSE, NoPanic, NoKey, FALSE), TRUE)
  /\ procs' = [procs EXCEPT ![p] = Idle]
  /\ lock' = NoProc
  /\ UNCHANGED <<clock, sw, order, hist, twin>>

\* fn returns an error: Fetch returns it and stores nothing.
FetchFail(p) ==
  /\ ~crashed /\ procs[p].pc = "fn" /\ lock = p
  /\ last' = Done("Fetch", procs[p].key,
                  Ret(c, ZeroV, FALSE, NoPanic, NoKey, FALSE), TRUE, TRUE, procs[p].now)
  /\ procs' = [procs EXCEPT ![p] = Idle]
  /\ lock' = NoProc
  /\ prev' = PrevAfterFetch(c, procs[p].key, Ret(c, ZeroV, FALSE, NoPanic, NoKey, FALSE), TRUE)
  /\ UNCHANGED <<c, clock, sw, crashed, order, hist, twin>>

\* fn returns val: Fetch stores it by l.set and returns it.
FetchStore(p, val) ==
  /\ ~crashed /\ procs[p].pc = "fn" /\ lock = p
  /\ FreePtrs(c) # {}
  /\ \E victim \in Victims(c) :
       LET r == Set(c, procs[p].key, val, procs[p].now, victim)
       IN /\ c' = GC(r.c)
          /\ last' = [Done("Fetch", procs[p].key, r, FALSE, TRUE, procs[p].now)
                        EXCEPT !.v = IF r.panic = NoPanic THEN val ELSE ZeroV]
          /\ crashed' = (r.panic = PanicNil)
          /\ order' = IF r.panic = NoPanic
                        THEN OrderAfterSet(r.c, procs[p].key) ELSE order
          /\ hist' = IF r.panic = NoPanic THEN HistAfterSet(procs[p].key, val) ELSE hist
          /\ prev' = PrevAfterFetch(r.c, procs[p].key, r, FALSE)
  /\ procs' = [procs EXCEPT ![p] = Idle]
  /\ lock' = NoProc
  /\ UNCHANGED <<clock, sw, twin>>

\* Stop under the lock. The record of the call has ok for the outcome of the
\* compare-and-swap: whether this call made the cache stopped.
RunStop(p) ==
  /\ ~crashed /\ procs[p].pc = "called" /\ procs[p].op = "Stop" /\ lock = NoProc
  /\ LET r == Stop(c)
     IN /\ c' = GC(r.c)
        /\ last' = Done("Stop", NoKey, Ret(r.c, ZeroV, ~isStopped(c), r.panic, NoKey, FALSE),
                        FALSE, FALSE, 0)
  /\ order' = <<>>
  /\ procs' = [procs EXCEPT ![p] = Idle]
  /\ prev' = NoPrev
  /\ UNCHANGED <<lock, clock, sw, crashed, hist, twin>>

\* Time passes.
Tick ==
  /\ ~crashed /\ IsTTL /\ clock < MaxClock
  /\ clock' = clock + 1
  /\ UNCHANGED <<c, lock, procs, sw, crashed, last, order, hist, prev, twin>>

----------------------------------------------------------------------------
\* The sweeper goroutine, TTL.start.

\* The top of the loop: return if stopped, else go on to the select.
SweeperCheck ==
  /\ ~crashed /\ sw.pc = "top"
  /\ sw' = [sw EXCEPT !.pc = IF isStopped(c) THEN "done" ELSE "select"]
  /\ UNCHANGED <<c, lock, procs, clock, crashed, last, order, hist, prev, twin>>

\* case <-l.stopCh: return
SweeperStopped ==
  /\ ~crashed /\ sw.pc = "select" /\ c.stopCh = "closed"
  /\ sw' = [sw EXCEPT !.pc = "done"]
  /\ UNCHANGED <<c, lock, procs, clock, crashed, last, order, hist, prev, twin>>

\* case <-ticker.C: read the clock, then wait for the lock.
SweeperTick ==
  /\ ~crashed /\ sw.pc = "select"
  /\ sw' = [pc |-> "tick", now |-> clock]
  /\ UNCHANGED <<c, lock, procs, clock, crashed, last, order, hist, prev, twin>>

\* The tick body under the lock.
SweeperSweep ==
  /\ ~crashed /\ sw.pc = "tick" /\ lock = NoProc
  /\ LET r == Sweep(c, sw.now)
     IN /\ c' = GC(r.c)
        /\ crashed' = (r.panic = PanicNil)
  /\ sw' = [pc |-> "top", now |-> 0]
  /\ last' = NoCall
  /\ UNCHANGED <<lock, procs, clock, order, hist, prev, twin>>

\* The steps of the callers.
NextCall ==
  \/ \E p \in DOMAIN procs, key \in KeysOf(c) : CallGet(p, key)
  \/ \E p \in DOMAIN procs, key \in KeysOf(c), val \in Vals : CallSet(p, key, val)
  \/ \E p \in DOMAIN procs, key \in KeysOf(c) : CallFetch(p, key)
  \/ \E p \in DOMAIN procs : CallStop(p)
  \/ \E p \in DOMAIN procs : RunGet(p)
  \/ \E p \in DOMAIN procs : RunSet(p)
  \/ \E p \in DOMAIN procs : FetchBegin(p)
  \/ \E p \in DOMAIN procs : FetchFail(p)
  \/ \E p \in DOMAIN procs, val \in Vals : FetchStore(p, val)
  \/ \E p \in DOMAIN procs : RunStop(p)

\* The steps of the callers, of the clock and of the sweeper.
Next ==
  \/ NextCall
  \/ Tick
  \/ SweeperCheck
  \/ SweeperStopped
  \/ SweeperTick
  \/ SweeperSweep

\* Every cache, one caller.
Spec == Init /\ [][Next]_vars

\* The caches with a capacity (FIFO, LIFO, LRU, Random), one caller.
SpecCap == InitCap /\ [][NextCall]_vars

\* Two goroutines that call Set and Stop.
Procs2 == {"p1", "p2"}

\* The state a constructor leaves, two goroutines holding the cache.
InitStop ==
  /\ c \in CapCaches \cup TTLCaches
  /\ lock = NoProc
  /\ procs = [p \in Procs2 |-> Idle]
  /\ clock = 0
  /\ sw = [pc |-> IF IsTTL THEN "top" ELSE "none", now |-> 0]
  /\ crashed = FALSE
  /\ last = NoCall
  /\ order = <<>>
  /\ hist = [over |-> FALSE, sets |-> <<>>]
  /\ prev = NoPrev
  /\ twin = NoTwin

\* The steps of callers that set and stop, of the clock and of the sweeper.
NextStop ==
  \/ \E p \in DOMAIN procs, key \in TTLKeys : CallSet(p, key, 1)
  \/ \E p \in DOMAIN procs : CallStop(p)
  \/ \E p \in DOMAIN procs : RunSet(p)
  \/ \E p \in DOMAIN procs : RunStop(p)
  \/ Tick
  \/ SweeperCheck
  \/ SweeperStopped
  \/ SweeperTick
  \/ SweeperSweep

\* Every cache, two callers that set and stop concurrently.
SpecStop == InitStop /\ [][NextStop]_vars

\* The state NewTTL of either variant leaves.
InitTTL == InitOf(TTLCaches)

\* A TTL cache and one caller, the clock advancing and the sweeper ticking:
\* the ticker fires every sweep interval, and the sweeper gets the lock once
\* it is free.
SpecTTLFair ==
  /\ InitTTL /\ [][Next]_vars
  /\ WF_vars(Tick)
  /\ WF_vars(SweeperCheck) /\ WF_vars(SweeperStopped)
  /\ WF_vars(SweeperTick) /\ WF_vars(SweeperSweep)

\* A TTL cache and one caller that sets and stops, the clock advancing and
\* the sweeper goroutine being scheduled.
SpecStopFair ==
  /\ InitTTL /\ [][NextStop]_vars
  /\ WF_vars(Tick)
  /\ WF_vars(SweeperCheck) /\ WF_vars(SweeperStopped)
  /\ WF_vars(SweeperTick) /\ WF_vars(SweeperSweep)

\* No cache: the caller's variable before the constructor has returned one.
NoCache ==
  [policy |-> "none", capacity |-> 0, ttl |-> 0, cache |-> EmptyMap,
   head |-> NIL, tail |-> NIL, heap |-> <<>>, stopped |-> 0, stopCh |-> "none",
   nodes |-> EmptyMap]

\* The arguments the constructor of a policy is called with.
NewArgs(policy) ==
  IF policy \in TTLPolicies THEN {-1, 0, TTLDuration} ELSE -1..MaxCapacity

\* The state before any constructor was called: no cache, no sweeper.
InitNew ==
  /\ c = NoCache
  /\ lock = NoProc
  /\ procs = [p \in Procs |-> Idle]
  /\ clock = 0
  /\ sw = [pc |-> "none", now |-> 0]
  /\ crashed = FALSE
  /\ last = NoCall
  /\ order = <<>>
  /\ hist = [over |-> FALSE, sets |-> <<>>]
  /\ prev = NoPrev
  /\ twin = NoTwin

\* The constructor of a policy is called with arg: it panics and leaves no
\* cache, or returns one, NewTTL having started the sweeper with `go c.start`.
\* The record of the call holds the policy for key and the argument for v.
New(policy, arg) ==
  /\ c = NoCache /\ last = NoCall
  /\ LET r == NewCache(policy, arg)
     IN /\ c' = IF r.panic = NoPanic THEN r.c ELSE c
        /\ sw' = IF r.panic = NoPanic /\ policy \in TTLPolicies
                   THEN [pc |-> "top", now |-> 0] ELSE sw
        /\ last' = [NoCall EXCEPT !.op = "New", !.key = policy, !.v = arg,
                                  !.panic = r.panic]
  /\ UNCHANGED <<lock, procs, clock, crashed, order, hist, prev, twin>>

\* A constructor call, then Get and Set on the cache it returned, the clock
\* and the sweeper.
NextNew ==
  \/ \E policy \in CapPolicies \cup TTLPolicies :
       \E arg \in NewArgs(policy) : New(policy, arg)
  \/ /\ c # NoCache
     /\ \/ \E p \in DOMAIN procs, key \in TTLKeys : CallGet(p, key)
        \/ \E p \in DOMAIN procs, key \in TTLKeys, val \in Vals : CallSet(p, key, val)
        \/ \E p \in DOMAIN procs : RunGet(p)
        \/ \E p \in DOMAIN procs : RunSet(p)
        \/ Tick
        \/ SweeperCheck
        \/ SweeperTick
        \/ SweeperSweep

\* Construction with any argument, then use of the cache by one caller.
SpecNew == InitNew /\ [][NextNew]_vars

\* The steps of two goroutines that call Fetch, Get, Set and Stop, of the
\* clock and of the sweeper.
NextFetch2 ==
  \/ \E p \in DOMAIN procs : CallFetch(p, "a")
  \/ CallGet("p2", "a")
  \/ CallSet("p2", "b", 1)
  \/ CallStop("p2")
  \/ \E p \in DOMAIN procs : RunGet(p)
  \/ \E p \in DOMAIN procs : RunSet(p)
  \/ \E p \in DOMAIN procs : FetchBegin(p)
  \/ \E p \in DOMAIN procs : FetchFail(p)
  \/ \E p \in DOMAIN procs, val \in Vals : FetchStore(p, val)
  \/ \E p \in DOMAIN procs : RunStop(p)
  \/ Tick
  \/ SweeperCheck
  \/ SweeperStopped
  \/ SweeperTick
  \/ SweeperSweep

\* Every cache, two callers whose Fetch, Get, Set and Stop calls overlap.
SpecFetch2 == InitStop /\ [][NextFetch2]_vars

\* NewLRU with each capacity up to one more than the other caches have, one
\* caller: the list grows to three items, so that an item between two others
\* is promoted.
InitLRU == InitOf({NewCache("LRU", cap).c : cap \in 1..(MaxCapacity + 1)})

\* The LRU caches, one caller.

SpecLRU == InitLRU /\ [][NextCall]_vars

----------------------------------------------------------------------------
\* The two TTL variants side by side: c is the heap variant, twin.c the list
\* variant. One caller makes the same call on both at the same clock reading,
\* and the two sweepers tick at the same clock reading.

\* TTL.Fetch as one step, fn returning val or, with err, an error: a found
\* value is returned, else fn is called, and what it returns without an
\* error is stored by l.set.
Fetch(cc, key, now, val, err) ==
  LET g == Get(cc, key, now)
  IN IF g.ok \/ g.panic # NoPanic THEN [c |-> g.c, v |-> g.v, err |-> FALSE, panic |-> g.panic]
     ELSE IF err THEN [c |-> cc, v |-> ZeroV, err |-> TRUE, panic |-> NoPanic]
     ELSE LET st == Set(cc, key, val, now, NoKey)
          IN [c |-> st.c, v |-> IF st.panic = NoPanic THEN val ELSE ZeroV,
              err |-> FALSE, panic |-> st.panic]

\* The list variant after a call or tick left it as cc: dead on a nil
\* dereference, and what the call returned.
TwinAfter(cc, panic, v, ok, err) ==
  [c |-> GC(cc), crashed |-> (panic = PanicNil),
   last |-> [v |-> v, ok |-> ok, err |-> err]]

\* NewTTL of both variants with the same TTL.
InitTwin ==
  /\ c = NewCache("TTLHeap", TTLDuration).c
  /\ twin = TwinAfter(NewCache("TTLList", TTLDuration).c, NoPanic, ZeroV, FALSE, FALSE)
  /\ lock = NoProc
  /\ procs = [p \in Procs |-> Idle]
  /\ clock = 0
  /\ sw = [pc |-> "top", now |-> 0]
  /\ crashed = FALSE
  /\ last = NoCall
  /\ order = <<>>
  /\ hist = [over |-> FALSE, sets |-> <<>>]
  /\ prev = NoPrev

\* Both processes are alive.
TwinAlive == ~crashed /\ ~twin.crashed

\* Get(key) on both.
TwinGet(key) ==
  /\ TwinAlive
  /\ LET h == Get(c, key, clock)
         l == Get(twin.c, key, clock)
     IN /\ c' = GC(h.c)
        /\ crashed' = (h.panic = PanicNil)
        /\ last' = Done("Get", key, h, FALSE, FALSE, clock)
        /\ twin' = TwinAfter(l.c, l.panic, l.v, l.ok, FALSE)
  /\ UNCHANGED <<lock, procs, clock, sw, order, hist, prev>>

\* Set(key, val) on both.
TwinSet(key, val) ==
  /\ TwinAlive /\ FreePtrs(c) # {} /\ FreePtrs(twin.c) # {}
  /\ LET h == Set(c, key, val, clock, NoKey)
         l == Set(twin.c, key, val, clock, NoKey)
     IN /\ c' = GC(h.c)
        /\ crashed' = (h.panic = PanicNil)
        /\ last' = Done("Set", key, h, FALSE, FALSE, clock)
        /\ twin' = TwinAfter(l.c, l.panic, ZeroV, FALSE, FALSE)
  /\ UNCHANGED <<lock, procs, clock, sw, order, hist, prev>>

\* Fetch(key, fn) on both, fn returning val or, with err, an error.
TwinFetch(key, val, err) ==
  /\ TwinAlive /\ FreePtrs(c) # {} /\ FreePtrs(twin.c) # {}
  /\ \E h \in {Fetch(c, key, clock, val, err)},
        l \in {Fetch(twin.c, key, clock, val, err)} :
       /\ c' = GC(h.c)
       /\ crashed' = (h.panic = PanicNil)
       /\ last' = Done("Fetch", key, Ret(h.c, h.v, FALSE, h.panic, NoKey, FALSE),
                       h.err, FALSE, clock)
       /\ twin' = TwinAfter(l.c, l.panic, l.v, FALSE, l.err)
  /\ UNCHANGED <<lock, procs, clock, sw, order, hist, prev>>

\* Time passes for both.
TwinTick == TwinAlive /\ Tick

\* The tick body of both sweepers, each having read the same clock.
TwinSweep ==
  /\ TwinAlive
  /\ LET h == Sweep(c, clock)
         l == Sweep(twin.c, clock)
     IN /\ c' = GC(h.c)
        /\ crashed' = (h.panic = PanicNil)
        /\ twin' = TwinAfter(l.c, l.panic, ZeroV, FALSE, FALSE)
  /\ last' = NoCall
  /\ UNCHANGED <<lock, procs, clock, sw, order, hist, prev>>

NextTwin ==
  \/ \E key \in TTLKeys : TwinGet(key)
  \/ \E key \in TTLKeys, val \in Vals : TwinSet(key, val)
  \/ \E key \in TTLKeys, val \in Vals, err \in BOOLEAN : TwinFetch(key, val, err)
  \/ TwinTick
  \/ TwinSweep

\* The heap variant and the list variant of TTL under the same calls and ticks.
SpecTwin == InitTwin /\ [][NextTwin]_vars

\* The steps of two goroutines of which the first sets and gets and the
\* second gets and stops, of the clock and of the sweeper.
NextGetStop ==
  \/ \E key \in TTLKeys : CallSet("p1", key, 1)
  \/ \E p \in DOMAIN procs, key \in TTLKeys : CallGet(p, key)
  \/ CallStop("p2")
  \/ \E p \in DOMAIN procs : RunSet(p)
  \/ \E p \in DOMAIN procs : RunGet(p)
  \/ \E p \in DOMAIN procs : RunStop(p)
  \/ Tick
  \/ SweeperCheck
  \/ SweeperStopped
  \/ SweeperTick
  \/ SweeperSweep

\* Every cache, Get called concurrently with Stop.
SpecGetStop == InitStop /\ [][NextGetStop]_vars

----------------------------------------------------------------------------
\* The claims.

\* C1: a FIFO, LIFO, LRU or Random cache of capacity N never holds more than
\* N keys in its index, whatever Get, Set and Fetch calls were made.
C1_CapacityInvariant == c.policy \in CapPolicies => CacheLen(c) <= c.capacity

\* A Set or Fetch has just stored a new key in a full cache, which is full again.
C1_Witness ==
  /\ c.policy \in CapPolicies /\ last.op \in {"Set", "Fetch"}
  /\ last.evicted # NoKey /\ ~last.hadKey
  /\ CacheLen(c) = c.capacity

\* C2: in FIFO, LIFO, LRU and Random, once Set(k, v) has returned, a Get(k)
\* that follows it immediately returns (v, true): whether the cache was empty,
\* partly filled or full, and whether k was absent or present.
C2_SetThenGet ==
  (c.policy \in CapPolicies /\ last.op = "Set" /\ last.panic = NoPanic)
    => LET r == Get(c, last.key, Now)
       IN r.ok /\ r.v = last.v /\ r.panic = NoPanic

\* Set has just overwritten a key of a full cache with another value.
C2_Witness ==
  /\ c.policy \in CapPolicies /\ last.op = "Set" /\ last.panic = NoPanic
  /\ last.hadKey /\ last.evicted # NoKey /\ last.v = 2
  /\ \E i \in 1..Len(hist.sets) : hist.sets[i] = [key |-> last.key, val |-> 1]

\* C3: on a TTL cache of either variant, Set(k, v2) of a key the index holds
\* completes without a fatal failure, replaces the value and resets the expiry
\* to now + ttl, so that Get(k) at any time up to the new expiry returns (v2, true).
C3_TTLOverwrite ==
  (IsTTL /\ last.op = "Set" /\ last.hadKey)
    => /\ last.panic = NoPanic
       /\ ExpiryOf(c, last.key) = last.now + c.ttl
       /\ \A t \in 0..(last.now + c.ttl) :
            LET r == Get(c, last.key, t) IN r.ok /\ r.v = last.v

\* C4: in FIFO, LIFO, LRU and Random, a Set of a key the index holds evicts
\* nothing: the index has the same keys before and after it, also at capacity.
C4_OverwriteNeverEvicts ==
  [][\A p \in DOMAIN procs :
       (/\ c.policy \in CapPolicies
        /\ procs[p].pc = "called" /\ procs[p].op = "Set" /\ procs'[p].pc = "idle"
        /\ procs[p].key \in DOMAIN c.cache)
         => DOMAIN c'.cache = DOMAIN c.cache]_vars

\* The value the cache holds for a key of its index.
StoredValue(cc, key) ==
  IF cc.policy = "Random" THEN cc.cache[key] ELSE cc.nodes[cc.cache[key]].value

\* This step is the l.set of caller p, by Set or by a Fetch whose fn succeeded.
Stores(p) ==
  /\ procs'[p].pc = "idle" /\ last'.panic = NoPanic
  /\ \/ procs[p].pc = "called" /\ procs[p].op = "Set"
     \/ procs[p].pc = "fn" /\ ~last'.err

\* This step stores a key the index does not hold while the index is full.
StoresNewKeyWhenFull(p) ==
  /\ Stores(p)
  /\ procs[p].key \notin DOMAIN c.cache
  /\ CacheLen(c) >= c.capacity

\* The keys, in order, of the stores made since construction.
HistKeys == [i \in 1..Len(hist.sets) |-> hist.sets[i].key]

\* After the step the index holds the new key of caller p and what it held
\* before but for the victim, each with the value it had.
EvictsOnly(p, victim) ==
  /\ DOMAIN c'.cache = (DOMAIN c.cache \ {victim}) \cup {procs[p].key}
  /\ \A k \in DOMAIN c.cache \ {victim} :
       /\ StoredValue(c', k) = StoredValue(c, k)
       /\ Get(c', k, 0).ok /\ Get(c', k, 0).v = StoredValue(c, k)

\* C5: when a new key is stored in a full FIFO cache, the one key removed is
\* the one inserted earliest among the keys present (a key is inserted by the
\* store that finds it absent); every other key stays retrievable with its value.
C5_FIFOEvictsOldest ==
  [][\A p \in DOMAIN procs :
       (c.policy = "FIFO" /\ StoresNewKeyWhenFull(p))
         => /\ order # <<>> /\ Head(order) \in DOMAIN c.cache
            /\ EvictsOnly(p, Head(order))]_vars

\* C6: when a new key is stored in a full LIFO cache, the one key removed is
\* the one inserted latest among the keys present (a key is inserted by the
\* store that finds it absent); every other key stays retrievable with its value.
C6_LIFOEvictsNewest ==
  [][\A p \in DOMAIN procs :
       (c.policy = "LIFO" /\ StoresNewKeyWhenFull(p))
         => /\ order # <<>> /\ order[Len(order)] \in DOMAIN c.cache
            /\ EvictsOnly(p, order[Len(order)])]_vars

\* a, b, c were set in a LIFO cache of capacity 2: b is gone, a and c are there.
C6_Witness ==
  /\ c.policy = "LIFO" /\ c.capacity = 2
  /\ ~hist.over /\ HistKeys = <<"a", "b", "c">>
  /\ last.op = "Set" /\ last.evicted = "b"
  /\ DOMAIN c.cache = {"a", "c"}

\* C7: when a new key is stored in a full LRU cache, the one key removed is
\* the one whose latest successful Get, Set or Fetch is the oldest among the
\* keys present: no key used more recently than another goes before it.
C7_LRUEvictsLeastRecent ==
  [][\A p \in DOMAIN procs :
       (c.policy = "LRU" /\ StoresNewKeyWhenFull(p))
         => /\ order # <<>> /\ Head(order) \in DOMAIN c.cache
            /\ DOMAIN c'.cache = (DOMAIN c.cache \ {Head(order)}) \cup {procs[p].key}]_vars

\* a, b, c were set in an LRU cache of capacity 2, a having been read after
\* the set of b: b is gone, a and c are there.
C7_Witness ==
  /\ c.policy = "LRU" /\ c.capacity = 2
  /\ ~hist.over /\ HistKeys = <<"a", "b", "c">>
  /\ last.op = "Set" /\ last.evicted = "b"
  /\ DOMAIN c.cache = {"a", "c"}

\* C8: once N + 1 distinct keys have been stored in an empty Random cache of
\* capacity N, the index holds exactly N keys, each of them one of the stored
\* keys with the value it was stored with, and the key stored last is among
\* them, whichever victim the map iteration chose.
C8_RandomReplacement ==
  (/\ c.policy = "Random" /\ ~isStopped(c)
   /\ ~hist.over /\ Len(hist.sets) = c.capacity + 1
   /\ \A i, j \in 1..Len(hist.sets) : HistKeys[i] = HistKeys[j] => i = j)
    => /\ CacheLen(c) = c.capacity
       /\ \A k \in DOMAIN c.cache :
            /\ \E i \in 1..Len(hist.sets) : hist.sets[i] = [key |-> k, val |-> c.cache[k]]
            /\ Get(c, k, Now).ok /\ Get(c, k, Now).v = c.cache[k]
       /\ HistKeys[Len(hist.sets)] \in DOMAIN c.cache

\* a, b, c were set in a Random cache of capacity 2 and the set of c evicted
\* one of a and b.
C8_Witness ==
  /\ c.policy = "Random" /\ c.capacity = 2 /\ ~isStopped(c)
  /\ ~hist.over /\ HistKeys = <<"a", "b", "c">>
  /\ last.op = "Set" /\ last.key = "c" /\ last.evicted \in {"a", "b"}
  /\ CacheLen(c) = 2

\* C9: whenever Get or Fetch on a TTL cache returns a cached value, the clock
\* at the time the value is read under the lock is not later than the expiry
\* of the entry it came from.
C9_TTLFreshness ==
  (IsTTL /\ last.op \in {"Get", "Fetch"} /\ last.ok /\ ~last.fn)
    => last.at <= last.exp

\* C10: in every policy, a Fetch that runs while the index holds its key (in
\* TTL: holds it unexpired) returns the cached value and a nil error, does
\* not call fn, and leaves the stored value as it was.
C10_FetchHit ==
  [][\A p \in DOMAIN procs :
       (/\ procs[p].pc = "called" /\ procs[p].op = "Fetch" /\ procs'[p] # procs[p]
        /\ procs[p].key \in DOMAIN c.cache
        /\ IsTTL => ExpiryOf(c, procs[p].key) >= clock)
         => /\ procs'[p].pc = "idle"
            /\ last'.op = "Fetch" /\ last'.key = procs[p].key
            /\ last'.ok /\ last'.v = StoredValue(c, procs[p].key)
            /\ ~last'.err /\ last'.panic = NoPanic /\ ~last'.fn
            /\ procs[p].key \in DOMAIN c'.cache
            /\ StoredValue(c', procs[p].key) = StoredValue(c, procs[p].key)]_vars

\* A Fetch on a TTL cache has just returned the value of an entry at the very
\* instant of its expiry, without calling fn.
C10_Witness ==
  /\ IsTTL /\ last.op = "Fetch" /\ last.hadKey /\ last.ok /\ ~last.fn
  /\ last.v \in Vals /\ last.exp = clock /\ last.at = clock

\* This step is the lookup of a Fetch of caller p that comes right after a
\* Fetch of the same key returned, no call having been made in between.
FetchesAgain(p) ==
  /\ procs[p].pc = "called" /\ procs[p].op = "Fetch" /\ procs'[p] # procs[p]
  /\ prev.key = procs[p].key

\* C11: in every policy and for every fn, the second of two Fetch(k, fn) calls
\* made in succession with no operation in between does not call fn.
C11_FetchIdempotent ==
  [][\A p \in DOMAIN procs : FetchesAgain(p) => procs'[p].pc # "fn"]_vars

\* C11 as amended: if the first Fetch returned a nil error, and for TTL the
\* second looks the key up before the expiry of the entry the first returned
\* or stored, the second does not call fn and returns that entry's value.
C11_FetchIdempotentAfterSuccess ==
  [][\A p \in DOMAIN procs :
       (/\ FetchesAgain(p) /\ ~prev.err
        /\ IsTTL => clock < prev.exp)
         => /\ procs'[p].pc = "idle"
            /\ last'.op = "Fetch" /\ last'.ok /\ ~last'.fn /\ ~last'.err
            /\ last'.panic = NoPanic
            /\ last'.v = StoredValue(c, procs[p].key)]_vars

\* A Fetch has just returned a value without calling fn, the call made before
\* it being a Fetch of the same key that returned a nil error.
C11_Witness ==
  /\ last.op = "Fetch" /\ last.ok /\ ~last.fn /\ last.panic = NoPanic
  /\ prev.key = last.key /\ prev.again

\* C12: in every policy, a Fetch of a key that get does not find, whose fn
\* returns an error, returns the error and leaves the cache as it was before
\* the call: from the lookup to the return nothing of the index, the items,
\* the list or heap and the expiries changes, and Get of the key finds nothing.
C12_FetchFailure ==
  [][\A p \in DOMAIN procs :
       /\ procs'[p].pc = "fn" => c' = c /\ order' = order
       /\ (procs[p].pc = "fn" /\ procs'[p].pc = "idle" /\ last'.err)
            => /\ c' = c /\ order' = order
               /\ last'.op = "Fetch" /\ last'.key = procs[p].key
               /\ ~last'.ok /\ last'.v = ZeroV /\ last'.panic = NoPanic
               /\ ~Get(c', procs[p].key, clock').ok]_vars

\* A Fetch whose fn failed has just returned its error on a full LRU cache of
\* capacity 2.
C12_Witness ==
  /\ c.policy = "LRU" /\ c.capacity = 2 /\ CacheLen(c) = 2
  /\ last.op = "Fetch" /\ last.err /\ last.fn /\ ~last.ok
  /\ last.key \notin DOMAIN c.cache

\* C13: in every policy, a Fetch of a key that get does not find, whose fn
\* returns v, returns (v, nil) and stores v: a Get of the key issued once Fetch
\* has returned (in TTL: before ttl has elapsed since it returned) yields
\* (v, true), however long fn ran.
C13_WriteThroughFetch ==
  (last.op = "Fetch" /\ last.fn /\ ~last.err)
    => /\ last.panic = NoPanic /\ last.v \in Vals
       /\ \A t \in (IF IsTTL THEN last.at..(last.at + c.ttl - 1) ELSE {0}) :
            LET r == Get(c, last.key, t) IN r.ok /\ r.v = last.v

\* C14: in every policy, once the cache is stopped, every Get, Set and Fetch
\* that runs panics with "cache is stopped": it returns no miss, does not
\* call fn and stores nothing.
C14_UseAfterStop ==
  [][\A p \in DOMAIN procs :
       (/\ isStopped(c) /\ procs[p].pc = "called"
        /\ procs[p].op \in {"Get", "Set", "Fetch"} /\ procs'[p] # procs[p])
         => /\ procs'[p].pc = "idle"
            /\ last'.op = procs[p].op /\ last'.panic = PanicStopped
            /\ ~last'.ok /\ ~last'.fn
            /\ c' = c /\ hist' = hist]_vars

\* A Fetch on a stopped cache has just panicked.
C14_Witness ==
  /\ isStopped(c) /\ last.op = "Fetch" /\ last.panic = PanicStopped /\ ~last.fn

\* C15: in every policy, once Stop has returned the index is empty and so is
\* the order structure (head and tail nil, the heap empty), in that state and
\* in every later one.
C15_StopClears ==
  isStopped(c)
    => /\ DOMAIN c.cache = {}
       /\ c.head = NIL /\ c.tail = NIL
       /\ c.heap = <<>>

\* Stop has just returned on a cache of capacity 2 that had stored three keys.
C15_Witness ==
  /\ isStopped(c) /\ last.op = "Stop" /\ last.ok /\ last.panic = NoPanic
  /\ c.capacity = 2 /\ Len(hist.sets) = 3

\* C16: of any number of Stop calls on a cache, sequential or concurrent, the
\* one that finds it active makes it stopped and tears it down (closing the
\* stop channel of a TTL cache); every other one returns without changing
\* anything and without failing, and the stop channel is never closed twice.
C16_StopOnce ==
  [][/\ \A p \in DOMAIN procs :
          (procs[p].pc = "called" /\ procs[p].op = "Stop" /\ procs'[p] # procs[p])
            => /\ last'.op = "Stop" /\ last'.panic = NoPanic
               /\ last'.ok = ~isStopped(c)
               /\ isStopped(c')
               /\ isStopped(c) => c' = c
               /\ IsTTL => (c.stopCh = "open") = ~isStopped(c) /\ c'.stopCh = "closed"
     /\ isStopped(c) => isStopped(c')
     /\ c.stopCh # c'.stopCh
          => /\ c.stopCh = "open" /\ c'.stopCh = "closed" /\ ~isStopped(c)
             /\ \E p \in DOMAIN procs : procs[p].op = "Stop" /\ procs'[p].pc = "idle"]_vars

\* On a TTL cache a Stop has just returned without effect, another having
\* stopped the cache before it, while a Set of the other caller is waiting.
C16_Witness ==
  /\ IsTTL /\ isStopped(c) /\ c.stopCh = "closed"
  /\ last.op = "Stop" /\ ~last.ok /\ last.panic = NoPanic
  /\ \E p \in DOMAIN procs : procs[p].pc = "called" /\ procs[p].op = "Set"

\* C17: NewFIFO, NewLIFO, NewLRU and NewRandom with capacity <= 0 and NewTTL
\* with ttl <= 0 panic before any cache exists, NewTTL not having started a
\* sweeper; with a positive argument the constructor returns an empty cache
\* that is not stopped.
C17_ConstructionMisuse ==
  /\ c = NoCache => sw.pc = "none"
  /\ last.op = "New" =>
       IF last.v <= 0
         THEN /\ last.panic = (IF last.key \in TTLPolicies
                                 THEN "ttl must be greater than 0"
                                 ELSE "capacity must be greater than 0")
              /\ c = NoCache /\ sw.pc = "none"
         ELSE /\ last.panic = NoPanic
              /\ c.policy = last.key
              /\ (IF IsTTL THEN c.ttl ELSE c.capacity) = last.v
              /\ DOMAIN c.cache = {} /\ c.head = NIL /\ c.tail = NIL /\ c.heap = <<>>
              /\ ~isStopped(c)
              /\ (sw.pc # "none") = IsTTL
              /\ IsTTL => c.stopCh = "open"

\* NewTTL of the list variant was called with ttl 0 and has panicked.
C17_Witness ==
  /\ last.op = "New" /\ last.key = "TTLList" /\ last.v = 0
  /\ last.panic = "ttl must be greater than 0" /\ c = NoCache

\* The index of a TTL cache that is not stopped holds for key an entry whose
\* expiry has passed.
ExpiredPresent(key) ==
  /\ IsTTL /\ ~isStopped(c)
  /\ key \in DOMAIN c.cache
  /\ ExpiryOf(c, key) < clock

\* C18: on a TTL cache that is not stopped and whose sweeper keeps ticking,
\* an entry whose expiry has passed is eventually removed, whatever Set, Get
\* and Fetch calls came before, overwrites included.
C18_EventualRemoval ==
  \A key \in TTLKeys : ExpiredPresent(key) ~> ~ExpiredPresent(key)

\* The keys of the items of the list, from node on to the tail.
RECURSIVE ListKeys(_, _)
ListKeys(cc, node) ==
  IF node = NIL THEN <<>>
  ELSE <<cc.nodes[node].key>> \o ListKeys(cc, cc.nodes[node].next)

\* C19: in FIFO and LIFO a Set of a key the index holds changes the value of
\* that key only: the keys from head to tail are the same sequence before and
\* after it, also when the cache is at capacity.
C19_OverwriteKeepsOrder ==
  [][\A p \in DOMAIN procs :
       (/\ c.policy \in {"FIFO", "LIFO"}
        /\ procs[p].pc = "called" /\ procs[p].op = "Set" /\ procs'[p].pc = "idle"
        /\ procs[p].key \in DOMAIN c.cache)
         => /\ ListKeys(c', c'.head) = ListKeys(c, c.head)
            /\ DOMAIN c'.cache = DOMAIN c.cache
            /\ \A k \in DOMAIN c.cache :
                 StoredValue(c', k) = IF k = procs[p].key THEN procs[p].val
                                      ELSE StoredValue(c, k)]_vars

\* C20: once Stop has returned on a TTL cache no later step, of the sweeper
\* in particular (a tick that fired around the Stop included), changes the
\* index or the order structure, and the sweeper goroutine returns in the end.
C20_StoppedSweeper ==
  /\ [][(IsTTL /\ isStopped(c)) => c' = c]_vars
  /\ (IsTTL /\ isStopped(c)) ~> (sw.pc = "done")

\* Stop has returned on a TTL cache while a tick of the sweeper, taken before
\* the expiry of the entries, was waiting for the lock.
C20_Witness ==
  /\ IsTTL /\ isStopped(c) /\ last.op = "Stop" /\ last.ok
  /\ sw.pc = "tick" /\ sw.now < clock

\* A Stop call of another goroutine is waiting for the lock.
StopPending == \E q \in DOMAIN procs : procs[q].pc = "called" /\ procs[q].op = "Stop"

\* C21: while a Fetch holds the lock with its fn running and a Stop has been
\* called, the cache is not stopped and nothing of it changes until the Fetch
\* returns; the Fetch returns without a fatal failure, having stored the value
\* of fn that it returns, and the cache is still not stopped then; the Stop
\* that runs afterwards marks it stopped and empties the index.
C21_StopWaitsForFetch ==
  [][/\ \A p \in DOMAIN procs :
          (procs[p].pc = "fn" /\ StopPending)
            => /\ ~isStopped(c)
               /\ procs'[p].pc = "fn" => c' = c
               /\ procs'[p].pc = "idle"
                    => /\ last'.op = "Fetch" /\ last'.panic = NoPanic /\ ~crashed'
                       /\ ~isStopped(c')
                       /\ ~last'.err
                            => /\ last'.v \in Vals
                               /\ procs[p].key \in DOMAIN c'.cache
                               /\ StoredValue(c', procs[p].key) = last'.v
     /\ \A q \in DOMAIN procs :
          (procs[q].pc = "called" /\ procs[q].op = "Stop" /\ procs'[q].pc = "idle")
            => /\ \A p \in DOMAIN procs : procs[p].pc # "fn"
               /\ isStopped(c') /\ DOMAIN c'.cache = {}]_vars

\* This step is the lookup of a Fetch of caller p that was waiting for the
\* lock while a Fetch of the same key ran fn, stored and returned, no call
\* having been made since.
FetchesAfterConcurrent(p) ==
  /\ procs[p].pc = "called" /\ procs[p].op = "Fetch" /\ procs'[p] # procs[p]
  /\ last.op = "Fetch" /\ last.key = procs[p].key
  /\ last.fn /\ ~last.err /\ last.panic = NoPanic

\* C22: from the lookup of a Fetch to its store or its return the Fetch holds
\* the lock: no Get, Set, Fetch or Stop of another caller returns or takes
\* effect, no sweep runs, and the cache changes by the store of that Fetch
\* only. So of two overlapping Fetch calls of one absent key on a FIFO, LIFO,
\* LRU or Random cache, fn succeeding, the second does not call fn and returns
\* the value the first returned.
C22_FetchCriticalSection ==
  [][\A p \in DOMAIN procs :
       /\ procs[p].pc = "fn"
            => /\ lock = p
               /\ \A q \in DOMAIN procs \ {p} :
                    /\ procs[q].pc # "fn" /\ procs'[q].pc # "fn"
                    /\ procs'[q].pc = "idle" => procs[q].pc = "idle"
               /\ sw.pc = "tick" => sw'.pc = "tick"
               /\ procs'[p].pc = "fn" => c' = c /\ order' = order /\ hist' = hist
               /\ procs'[p].pc # "fn" => procs'[p].pc = "idle" /\ last'.op = "Fetch"
                                           /\ last'.key = procs[p].key /\ last'.fn
       /\ (c.policy \in CapPolicies /\ FetchesAfterConcurrent(p))
            => /\ procs'[p].pc = "idle"
               /\ last'.op = "Fetch" /\ last'.ok /\ ~last'.fn /\ ~last'.err
               /\ last'.panic = NoPanic
               /\ last'.v = last.v
               /\ hist' = hist]_vars

\* On a full LRU cache of capacity 1 a Fetch has run fn, stored and returned
\* while the Fetch of the same key by the other caller was waiting for the lock.
C22_Witness ==
  /\ c.policy = "LRU" /\ c.capacity = 1 /\ Len(hist.sets) = 2
  /\ last.op = "Fetch" /\ last.fn /\ ~last.err /\ last.panic = NoPanic
  /\ last.v \in Vals /\ last.evicted # NoKey
  /\ \E p \in DOMAIN procs :
       /\ procs[p].pc = "called" /\ procs[p].op = "Fetch"
       /\ procs[p].key = last.key

\* This step is the return of a Get of caller p that found its key, or of a
\* Set of caller p, on an LRU cache.
LRUPromotes(p) ==
  /\ c.policy = "LRU"
  /\ procs[p].pc = "called" /\ procs'[p].pc = "idle" /\ last'.panic = NoPanic
  /\ \/ procs[p].op = "Get" /\ last'.ok
     \/ procs[p].op = "Set"

\* C23: after a Get that found k, or a Set of k, on an LRU cache, k is the
\* tail of the list and the other keys present follow one another from the
\* head as they did before; a Get of the key at the tail changes nothing, and
\* a Get of the key at the head makes the successor of the head the head.
C23_LRUPromotion ==
  [][\A p \in DOMAIN procs :
       LRUPromotes(p)
         => LET k == procs[p].key
                before == ListKeys(c, c.head)
                after == ListKeys(c', c'.head)
            IN /\ k \in DOMAIN c'.cache
               /\ c'.tail = c'.cache[k] /\ c'.nodes[c'.tail].next = NIL
               /\ after # <<>> /\ after[Len(after)] = k
               /\ SeqRange(after) = DOMAIN c'.cache
               /\ SelectSeq(after, LAMBDA x : x # k)
                    = SelectSeq(before, LAMBDA x : x # k /\ x \in DOMAIN c'.cache)
               /\ (procs[p].op = "Get" /\ c.cache[k] = c.tail) => c' = c
               /\ (procs[p].op = "Get" /\ c.cache[k] = c.head /\ c.head # c.tail)
                    => c'.head = c.nodes[c.head].next]_vars

\* On an LRU cache that holds a, b and c, set in that order, a Get of b, which
\* was between the head and the tail, has returned: the list is now a, c, b.
C23_Witness ==
  /\ c.policy = "LRU" /\ c.capacity = 3
  /\ ~hist.over /\ HistKeys = <<"a", "b", "c">>
  /\ last.op = "Get" /\ last.key = "b" /\ last.ok
  /\ ListKeys(c, c.head) = <<"a", "c", "b">>

\* The items met by following next from node, up to the end of the list or to
\* the first item met twice, and whether an item was met twice.
RECURSIVE ListWalk(_, _, _)
ListWalk(cc, node, seen) ==
  IF node = NIL THEN [nodes |-> seen, cyclic |-> FALSE]
  ELSE IF node \in SeqRange(seen) THEN [nodes |-> seen, cyclic |-> TRUE]
  ELSE ListWalk(cc, cc.nodes[node].next, Append(seen, node))

\* No element occurs twice in the sequence.
NoRepeat(seq) == \A i, j \in 1..Len(seq) : seq[i] = seq[j] => i = j

\* C24: in FIFO, LIFO and LRU, whenever no caller holds the lock, the list
\* from head along next is acyclic, the keys of its items are the keys of the
\* index, each once, and the index maps each key to the item with that key.
C24_ListIndexLockStep ==
  (c.policy \in {"FIFO", "LIFO", "LRU"} /\ lock = NoProc)
    => LET w == ListWalk(c, c.head, <<>>)
           keys == [i \in 1..Len(w.nodes) |-> c.nodes[w.nodes[i]].key]
       IN /\ ~w.cyclic
          /\ NoRepeat(keys)
          /\ SeqRange(keys) = DOMAIN c.cache
          /\ \A k \in DOMAIN c.cache :
               /\ c.cache[k] \in SeqRange(w.nodes)
               /\ c.nodes[c.cache[k]].key = k

\* On a full FIFO cache of capacity 2 a Set of the key at the head has
\* returned: it evicted that key and linked a new item for it.
C24_Witness ==
  /\ c.policy = "FIFO" /\ c.capacity = 2 /\ CacheLen(c) = 2 /\ lock = NoProc
  /\ last.op = "Set" /\ last.hadKey /\ last.evicted = last.key
  /\ last.panic = NoPanic

\* The list variant's list from head is acyclic, ends at tail, and its items
\* carry the keys of the index, each once.
TTLListLockStep ==
  LET w == ListWalk(c, c.head, <<>>)
      keys == [i \in 1..Len(w.nodes) |-> c.nodes[w.nodes[i]].key]
  IN /\ ~w.cyclic
     /\ c.tail = (IF w.nodes = <<>> THEN NIL ELSE w.nodes[Len(w.nodes)])
     /\ NoRepeat(keys)
     /\ SeqRange(keys) = DOMAIN c.cache
     /\ \A k \in DOMAIN c.cache : c.nodes[c.cache[k]].key = k

\* The heap variant's heap array holds the items of the index, each once, and
\* no other item.
TTLHeapLockStep ==
  LET keys == [i \in 1..Len(c.heap) |-> c.nodes[c.heap[i]].key]
  IN /\ NoRepeat(keys)
     /\ SeqRange(keys) = DOMAIN c.cache
     /\ \A k \in DOMAIN c.cache :
          c.cache[k] \in SeqRange(c.heap) /\ c.nodes[c.cache[k]].key = k

\* C25: on a TTL cache, whenever no caller and no sweep holds the lock and
\* the process has not died, the order structure (the list from head, or the
\* heap array) holds one entry for each key of the index and no other entry,
\* and the list is acyclic and ends at tail: after Set of new and of present
\* keys, Fetch and sweeps.
C25_TTLLockStep ==
  (IsTTL /\ lock = NoProc /\ ~crashed)
    => IF c.policy = "TTLList" THEN TTLListLockStep ELSE TTLHeapLockStep

\* The expiries of the list variant's items never decrease from head on.
TTLListSorted ==
  LET w == ListWalk(c, c.head, <<>>)
  IN \A i, j \in 1..Len(w.nodes) :
       i < j => c.nodes[w.nodes[i]].expiresAt <= c.nodes[w.nodes[j]].expiresAt

\* The root of the heap variant's heap has an expiry, and no item of the heap
\* has an earlier one.
TTLHeapRootIsMin ==
  c.heap # <<>>
    => /\ c.nodes[c.heap[1]].expiresAt # NoTime
       /\ \A i \in 1..Len(c.heap) :
            c.nodes[c.heap[i]].expiresAt # NoTime
              => c.nodes[c.heap[1]].expiresAt <= c.nodes[c.heap[i]].expiresAt

\* C26: on a TTL cache, whenever the lock is free and the process has not
\* died, the list variant's items have non-decreasing expiries from head to
\* tail and the heap variant's root has the least expiry: after overwrites,
\* and with callers that read the clock before they get the lock, in every
\* interleaving.
C26_TTLTimeOrder ==
  (IsTTL /\ lock = NoProc /\ ~crashed)
    => IF c.policy = "TTLList" THEN TTLListSorted ELSE TTLHeapRootIsMin

\* The items of the order structure of a TTL cache: those of the list from
\* head, or those of the heap array.
OrderItems(cc) ==
  IF cc.policy = "TTLList" THEN SeqRange(ListWalk(cc, cc.head, <<>>).nodes)
  ELSE SeqRange(cc.heap)

\* This step is a tick body of the sweeper that ran to its end.
SweepFinishes == sw.pc = "tick" /\ sw'.pc = "top" /\ ~crashed'

\* C27: when a tick body of the sweeper that read the clock at now has run
\* to its end, neither the index nor the order structure of the TTL cache
\* (heap variant, list variant) holds an entry whose expiry is at or before now.
C27_SweepComplete ==
  [][SweepFinishes
       => /\ \A k \in DOMAIN c'.cache : ExpiryOf(c', k) > sw.now
          /\ \A n \in OrderItems(c') :
               c'.nodes[n].expiresAt # NoTime => c'.nodes[n].expiresAt > sw.now]_vars

\* This step is a tick body of the sweeper, run to its end or to a panic.
SweepRuns == sw.pc = "tick" /\ sw'.pc = "top"

\* C28: a tick body of the sweeper that read the clock at now removes from
\* the index only keys whose entry, as the index holds it when the body runs,
\* has an expiry at or before now, and leaves every other entry as it is: a
\* key whose expiry an overwrite has moved beyond now stays.
C28_SweepRemovesExpiredOnly ==
  [][SweepRuns
       => /\ DOMAIN c'.cache \subseteq DOMAIN c.cache
          /\ \A k \in DOMAIN c.cache \ DOMAIN c'.cache :
               ExpiryOf(c, k) # NoTime /\ ExpiryOf(c, k) <= sw.now
          /\ \A k \in DOMAIN c'.cache :
               /\ c'.cache[k] = c.cache[k]
               /\ c'.nodes[c'.cache[k]].expiresAt = c.nodes[c.cache[k]].expiresAt
               /\ c'.nodes[c'.cache[k]].value = c.nodes[c.cache[k]].value
               /\ c'.nodes[c'.cache[k]].key = c.nodes[c.cache[k]].key]_vars

\* On the list variant a sweep has removed the first item allocated and has
\* kept b, whose item was set a second time and expires later than the clock.
C28_Witness ==
  /\ c.policy = "TTLList" /\ ~isStopped(c) /\ ~crashed /\ sw.pc = "top"
  /\ DOMAIN c.cache = {"b"} /\ DOMAIN c.nodes = {2} /\ c.cache["b"] = 2
  /\ c.nodes[2].next = 2
  /\ c.nodes[2].expiresAt > clock

\* C29: a Get on a FIFO, LIFO, Random or TTL cache, whether it finds the key,
\* misses it or finds a TTL entry that has expired, and a Get on an LRU cache
\* that misses, changes nothing of the index, the items and the order
\* structure; a TTL Get that finds an expired entry returns not found and
\* leaves the entry in the index.
C29_GetReadOnly ==
  [][\A p \in DOMAIN procs :
       (/\ procs[p].pc = "called" /\ procs[p].op = "Get" /\ procs'[p].pc = "idle"
        /\ ~isStopped(c)
        /\ (c.policy # "LRU" \/ ~last'.ok))
         => /\ c' = c /\ order' = order
            /\ last'.panic = NoPanic
            /\ (/\ IsTTL /\ procs[p].key \in DOMAIN c.cache
                /\ ExpiryOf(c, procs[p].key) < procs[p].now)
                 => /\ ~last'.ok /\ last'.v = ZeroV
                    /\ procs[p].key \in DOMAIN c'.cache]_vars

\* A Get on a TTL cache has just returned not found for a key whose expired
\* entry the index still holds.
C29_Witness ==
  /\ IsTTL /\ last.op = "Get" /\ ~last.ok /\ last.panic = NoPanic
  /\ last.hadKey /\ last.key \in DOMAIN c.cache
  /\ ExpiryOf(c, last.key) # NoTime /\ ExpiryOf(c, last.key) < last.now

\* C30: on a FIFO, LIFO or LRU cache that is not stopped, whenever the index
\* holds as many keys as the capacity or more, so that the next set evicts,
\* head is not nil and the key of its item is in the index, mapped to that
\* item; and no Get, Set or Fetch on a cache with a capacity that is not
\* stopped ends in a fatal failure.
C30_EvictionFindsHead ==
  c.policy \in CapPolicies
    => /\ ~crashed
       /\ last.panic # NoPanic => last.panic = PanicStopped /\ isStopped(c)
       /\ (/\ c.policy \in {"FIFO", "LIFO", "LRU"} /\ ~isStopped(c)
           /\ CacheLen(c) >= c.capacity)
            => /\ c.head # NIL
               /\ c.nodes[c.head].key \in DOMAIN c.cache
               /\ c.cache[c.nodes[c.head].key] = c.head

\* On an LRU cache of capacity 1 the third Set of a key that was absent has
\* evicted the head once more, and the cache is full again.
C30_Witness ==
  /\ c.policy = "LRU" /\ c.capacity = 1 /\ CacheLen(c) = 1 /\ ~isStopped(c)
  /\ ~hist.over /\ Len(hist.sets) = 3
  /\ last.op = "Set" /\ ~last.hadKey /\ last.evicted # NoKey /\ last.panic = NoPanic

\* C31: a tick of the sweeper of a TTL cache, of either variant, ends without
\* a fatal failure: it dereferences no nil key and no nil expiry, whatever
\* Set, Get and Fetch calls came before it.
C31_SweeperNeverFails ==
  [][(IsTTL /\ SweepRuns) => ~crashed']_vars

\* C32: the heap variant and the list variant of TTL, given the same Set, Get
\* and Fetch calls and the same sweeper ticks at the same clock readings,
\* return the same from every Get and Fetch, die in the same steps, and hold
\* the same keys in their indexes after every step.
C32_TTLVariantsEquivalent ==
  /\ crashed = twin.crashed
  /\ DOMAIN c.cache = DOMAIN twin.c.cache
  /\ last.v = twin.last.v
  /\ last.err = twin.last.err
  /\ last.op = "Get" => last.ok = twin.last.ok

\* A Get of caller p returns.
GetReturns(p) ==
  procs[p].pc = "called" /\ procs[p].op = "Get" /\ procs'[p].pc = "idle"

\* A Stop of caller q returns.
StopReturns(q) ==
  procs[q].pc = "called" /\ procs[q].op = "Stop" /\ procs'[q].pc = "idle"

\* C33: a Get that runs while other callers call Stop sees the cache either
\* before Stop or after it. Stop makes the cache stopped in the step in which
\* it clears the index and the list. A Get on a stopped cache fails with
\* "cache is stopped", the index and the list being cleared whole; a Get on a
\* cache not stopped returns what the index holds for the key, so a key that
\* is present (and, in TTL, has not expired) is never reported as not found.
C33_GetStopLinearized ==
  [][/\ \A q \in DOMAIN procs :
          StopReturns(q) => isStopped(c') /\ last'.panic = NoPanic
     /\ \A p \in DOMAIN procs :
       GetReturns(p)
         => LET key == procs[p].key
            IN IF isStopped(c)
                 THEN /\ last'.panic = PanicStopped
                      /\ DOMAIN c.cache = {} /\ c.head = NIL /\ c.tail = NIL
                      /\ c.heap = <<>>
                 ELSE /\ last'.panic = NoPanic
                      /\ last'.ok =
                           (/\ key \in DOMAIN c.cache
                            /\ IsTTL => ~(ExpiryOf(c, key) < procs[p].now))
                      /\ last'.ok => last'.v = StoredValue(c, key)
                      /\ ~last'.ok => last'.v = ZeroV]_vars

\* A Get has found its key while another caller's Stop waits for the lock.
C33_Witness ==
  /\ last.op = "Get" /\ last.ok /\ last.hadKey /\ last.panic = NoPanic
  /\ ~isStopped(c)
  /\ \E q \in DOMAIN procs : procs[q].op = "Stop" /\ procs[q].pc = "called"

\* The key of the item at the end of the list of cc, which is not empty.
Bottom(cc) == LET keys == ListKeys(cc, cc.head) IN keys[Len(keys)]

\* C34: in a LIFO cache of capacity 2 or more the key at the end of the list
\* is the first key ever set, and no Get, Set or Fetch evicts it: while the
\* cache is not stopped it stays in the index, at the end of the list.
C34_LIFOBottomStays ==
  [][(c.policy = "LIFO" /\ c.capacity >= 2 /\ ~isStopped(c'))
       => /\ c.head # NIL
            => /\ c'.head # NIL
               /\ Bottom(c') = Bottom(c)
               /\ Bottom(c) \in DOMAIN c'.cache
               /\ last'.evicted # Bottom(c)
          /\ (~hist'.over /\ hist'.sets # <<>>)
            => c'.head # NIL /\ Bottom(c') = hist'.sets[1].key]_vars

\* A LIFO cache of capacity 2 has stored three keys: the third Set has evicted
\* the second key, and the first is still at the end of the list.
C34_Witness ==
  /\ c.policy = "LIFO" /\ c.capacity = 2 /\ ~isStopped(c)
  /\ ~hist.over /\ Len(hist.sets) = 3
  /\ hist.sets[1].key # hist.sets[2].key /\ hist.sets[3].key \notin {hist.sets[1].key, hist.sets[2].key}
  /\ last.op = "Set" /\ last.evicted = hist.sets[2].key
  /\ c.head # NIL /\ Bottom(c) = hist.sets[1].key

\* C35: whenever no caller is inside a critical section, the list of an LRU
\* cache of any capacity is well formed: head has no prev and tail no next,
\* every next link is answered by the prev link back, tail is the last item
\* reached from head, and no zeroed item is reached from head or tail by
\* next or prev links.
C35_LRUListWellFormed ==
  (c.policy = "LRU" /\ lock = NoProc)
    => LET w == ListWalk(c, c.head, <<>>)
       IN /\ c.head # NIL => c.nodes[c.head].prev = NIL
          /\ c.tail # NIL => c.nodes[c.tail].next = NIL
          /\ \A n \in DOMAIN c.nodes :
               c.nodes[n].next # NIL => c.nodes[c.nodes[n].next].prev = n
          /\ ~w.cyclic
          /\ IF c.head = NIL THEN c.tail = NIL ELSE w.nodes[Len(w.nodes)] = c.tail
          /\ \A n \in Reach(c, {c.head, c.tail} \ {NIL}) : c.nodes[n].key # NoKey
====
